---- MODULE Spec2Model ----
(***************************************************************************)
(* Model of the subtitle post-processing layer of services/geminiService.ts *)
(* (refineSrtTiming, normalizeTimestamps, chunkTranscript, mergeSrtChunks). *)
(*                                                                         *)
(* A JavaScript string is modelled as a sequence of one-character strings, *)
(* so that split, trim, parseInt, padStart and length are computed the way *)
(* the code computes them.                                                 *)
(***************************************************************************)
EXTENDS Integers, Sequences, FiniteSets

VARIABLES
    pc,        \* position of the caller: "call" before the function ran, "done" after
    srt,       \* refineSrtTiming: the argument
    parsedBlocks, \* refineSrtTiming: the blocks parsed from the argument
    refined,   \* refineSrtTiming: per forEach iteration, index/newStart/newEnd/text
    output,    \* refineSrtTiming: the returned string
    text,      \* chunkTranscript: the transcript argument
    maxLen,    \* chunkTranscript: the maxLen argument
    chunks,    \* chunkTranscript: the returned list
    srts,      \* mergeSrtChunks: the argument
    merged,    \* mergeSrtChunks: the returned string
    timecode,  \* toMs: the spellings of one timecode given to it
    millis,    \* toMs: the value returned for each spelling
    formatted, \* toStr: the string returned for the value of the comma spelling
    fullTranscript, \* generateFullSrt: the transcript argument
    apiKey,    \* getApiKey: whether the environment holds a key
    position,  \* generateFullSrt: the window the for loop is at
    responses, \* generateSrt: the texts the generator returned, in call order
    results,   \* generateFullSrt: the results list
    calls,     \* generateSrt: the windows submitted to the generator, in call order
    failed,    \* generateSrt: whether a call of the generator has thrown
    returned,  \* generateFullSrt: the value the promise resolved with, if any
    normInput, \* normalizeTimestamps: the argument
    normOutput, \* normalizeTimestamps: the returned string
    genResponse, \* generateSrt: response.text of the call
    cleanText, \* generateSrt: cleanText as given to refineSrtTiming
    genReturned, \* generateSrt: the value the promise resolved with, if any
    stage,     \* App: stage
    transcript, \* App: transcript
    srtResult, \* App: srtResult
    isValidating, \* App: isValidating
    isProcessing, \* App: isProcessing
    error,     \* App: error, <<>> for null
    selectedMode, \* App: selectedMode
    proposedCorrections, \* App: proposedCorrections
    memoCorrections, \* App: proposedCorrections as seen by the memoised handleOptionSelect
    pending,   \* App: the service call awaited, with its arguments and its outcome
    stored,    \* localStorage: the entry under STORAGE_KEY
    storageFull, \* localStorage: whether setItem throws
    originalSrt, \* StageResult: originalSrt
    displayedSrt, \* StageResult: displayedSrt
    currentLanguage, \* StageResult: currentLanguage
    selectedLanguage, \* StageResult: selectedLanguage
    isTranslating, \* StageResult: isTranslating
    translationError, \* StageResult: translationError, <<>> for null
    translatedSrt, \* StageResult: translatedSrt, <<>> for null
    translatedLanguage, \* StageResult: translatedLanguage, <<>> for null
    translating, \* StageResult: the arguments of the translateSrt call awaited
    downloaded, \* StageResult: the content of the last file downloaded
    request,   \* proxy handler: req
    upstream,  \* proxy handler: the fetch calls made to the model API
    reply      \* proxy handler: the status and body sent with res

refineVars == <<srt, parsedBlocks, refined, output>>
chunkVars == <<text, maxLen>>
mergeVars == <<srts>>
codecVars == <<timecode, millis, formatted>>
fullVars == <<fullTranscript, apiKey, position, responses, results, calls, failed, returned>>

normVars == <<normInput, normOutput>>
genVars == <<genResponse, cleanText, genReturned>>
appVars == <<stage, transcript, srtResult, isValidating, isProcessing, error,
             selectedMode, proposedCorrections, memoCorrections, pending, stored,
             storageFull>>
resultVars == <<originalSrt, displayedSrt, currentLanguage, selectedLanguage,
                isTranslating, translationError, translatedSrt, translatedLanguage,
                translating, downloaded>>
proxyVars == <<request, upstream, reply>>
laterVars == <<normVars, genVars, appVars, resultVars, proxyVars>>

vars == <<pc, refineVars, chunkVars, chunks, mergeVars, merged, codecVars, fullVars,
          laterVars>>

\* no call of normalizeTimestamps under way
IdleNorm == normInput = <<>> /\ normOutput = <<>>

\* no call of generateSrt on its own under way
IdleGen == genResponse = <<>> /\ cleanText = <<>> /\ genReturned = <<>>

\* no App mounted
IdleApp ==
    /\ stage = "" /\ transcript = "" /\ srtResult = ""
    /\ isValidating = FALSE /\ isProcessing = FALSE /\ error = <<>>
    /\ selectedMode = "" /\ proposedCorrections = <<>> /\ memoCorrections = <<>>
    /\ pending = <<>> /\ stored = <<>> /\ storageFull = FALSE

\* no StageResult mounted
IdleResult ==
    /\ originalSrt = "" /\ displayedSrt = "" /\ currentLanguage = ""
    /\ selectedLanguage = "" /\ isTranslating = FALSE /\ translationError = <<>>
    /\ translatedSrt = <<>> /\ translatedLanguage = <<>> /\ translating = <<>>
    /\ downloaded = <<>>

\* no request at the proxy
IdleProxy == request = <<>> /\ upstream = <<>> /\ reply = <<>>

IdleLater == IdleNorm /\ IdleGen /\ IdleApp /\ IdleResult /\ IdleProxy

-----------------------------------------------------------------------------
(* Bounds of the model.                                                    *)

\* longest transcript, in characters, given to chunkTranscript
MaxTextLen == 6
\* largest maxLen given to chunkTranscript
MaxMaxLen == 4
\* most blank-line-separated pieces in one SRT text given to refineSrtTiming
MaxBlocks == 3
\* most pieces and window boundaries in the list given to mergeSrtChunks
MaxMergeTokens == 4
\* pieces of an SRT text whose block parsing is checked
MaxPieces == 3
\* largest hours field below 99 of the timecodes given to toMs
MaxHours == 1
\* most lines in a transcript given to generateFullSrt
MaxLines == 3
\* most pieces of text in a string given to normalizeTimestamps
MaxNormTokens == 3
\* most blocks in a response given to generateSrt
MaxGenBlocks == 2
\* the languages of SUPPORTED_LANGUAGES offered in StageResult: the first ones
MaxLanguages == 2
\* most corrections proposeCorrections answers with
MaxCorrections == 1
\* the App generates while the stored count of today is below MaxGenerations
\* or within MaxGenerations of the daily limit
MaxGenerations == 1

-----------------------------------------------------------------------------
(* JavaScript string primitives.                                           *)

NL == "\n"
SP == " "

\* the characters \s matches and trim() removes, among those the model uses
IsWs(c) == c \in {" ", "\n", "\t", "\r"}

DigitChars == <<"0", "1", "2", "3", "4", "5", "6", "7", "8", "9">>

IsDigit(c) == \E d \in 1..10 : DigitChars[d] = c

DigitVal(c) == (CHOOSE d \in 1..10 : DigitChars[d] = c) - 1

Max(S) == CHOOSE x \in S : \A y \in S : y <= x

\* the first index from i upwards, and the last from i downwards, that holds no
\* whitespace (Len(s) + 1 and 0 when there is none)
RECURSIVE FirstNonWs(_, _)
FirstNonWs(s, i) ==
    IF i > Len(s) \/ ~IsWs(s[i]) THEN i ELSE FirstNonWs(s, i + 1)

RECURSIVE LastNonWs(_, _)
LastNonWs(s, i) ==
    IF i < 1 \/ ~IsWs(s[i]) THEN i ELSE LastNonWs(s, i - 1)

\* String.prototype.trim
Trim(s) == SubSeq(s, FirstNonWs(s, 1), LastNonWs(s, Len(s)))

\* the least element of a set of indices, or `none` when it is empty
MinOr(S, none) == IF S = {} THEN none ELSE CHOOSE x \in S : \A y \in S : x <= y

\* s.split(sep) for a one-character separator set: always at least one part
RECURSIVE SplitFrom(_, _, _)
SplitFrom(s, seps, start) ==
    LET next == MinOr({i \in start..Len(s) : s[i] \in seps}, 0)
    IN  IF next = 0 THEN <<SubSeq(s, start, Len(s))>>
        ELSE <<SubSeq(s, start, next - 1)>> \o SplitFrom(s, seps, next + 1)

SplitChars(s, seps) == SplitFrom(s, seps, 1)

\* parts.join(sep)
RECURSIVE Join(_, _)
Join(parts, sep) ==
    IF Len(parts) = 0 THEN <<>>
    ELSE IF Len(parts) = 1 THEN parts[1]
    ELSE parts[1] \o sep \o Join(Tail(parts), sep)

JoinLines(lines) == Join(lines, <<NL>>)

\* s.split(/\n\s*\n/): a separator starts at a newline and runs, greedily, to the
\* last newline that only whitespace separates from it
BlankSepEnd(s, i) ==
    LET J == {j \in (i + 1)..Len(s) :
                 s[j] = NL /\ \A k \in (i + 1)..(j - 1) : IsWs(s[k])}
    IN  IF J = {} THEN 0 ELSE Max(J)

RECURSIVE SplitBlankFrom(_, _)
SplitBlankFrom(s, start) ==
    LET next == MinOr({i \in start..Len(s) : s[i] = NL /\ BlankSepEnd(s, i) > 0}, 0)
    IN  IF next = 0 THEN <<SubSeq(s, start, Len(s))>>
        ELSE <<SubSeq(s, start, next - 1)>>
                 \o SplitBlankFrom(s, BlankSepEnd(s, next) + 1)

SplitBlank(s) == SplitBlankFrom(s, 1)

\* s.split(sep) for a separator string of several characters
StartsAt(s, sep, i) ==
    /\ i + Len(sep) - 1 <= Len(s)
    /\ \A k \in 1..Len(sep) : s[i + k - 1] = sep[k]

RECURSIVE SplitStrFrom(_, _, _)
SplitStrFrom(s, sep, start) ==
    LET next == MinOr({i \in start..Len(s) : StartsAt(s, sep, i)}, 0)
    IN  IF next = 0 THEN <<SubSeq(s, start, Len(s))>>
        ELSE <<SubSeq(s, start, next - 1)>> \o SplitStrFrom(s, sep, next + Len(sep))

SplitStr(s, sep) == SplitStrFrom(s, sep, 1)

\* Number.prototype.toString for an integer
RECURSIVE NatToString(_)
NatToString(n) ==
    IF n < 10 THEN <<DigitChars[n + 1]>>
    ELSE NatToString(n \div 10) \o <<DigitChars[(n % 10) + 1]>>

NumToString(n) == IF n < 0 THEN <<"-">> \o NatToString(-n) ELSE NatToString(n)

\* String.prototype.padStart(width, '0')
\* no padding at all
PadStartNone(s, width) == s

RECURSIVE PadStart(_, _)
PadStart(s, width) == IF Len(s) >= width THEN s ELSE PadStart(<<"0">> \o s, width)

\* the % of JavaScript: the remainder has the sign of the dividend
JsRem(a, b) == IF a >= 0 THEN a % b ELSE -((-a) % b)

\* parseInt(s) || 0: leading whitespace, an optional sign, then the longest run of
\* digits; no digit (NaN) gives 0
RECURSIVE DigitsValue(_, _, _)
DigitsValue(s, i, acc) ==
    IF i <= Len(s) /\ IsDigit(s[i])
    THEN DigitsValue(s, i + 1, 10 * acc + DigitVal(s[i]))
    ELSE acc

ParseIntOr0(s) ==
    LET b     == FirstNonWs(s, 1)
        neg   == b <= Len(s) /\ s[b] = "-"
        d     == IF b <= Len(s) /\ s[b] \in {"-", "+"} THEN b + 1 ELSE b
    IN  IF neg THEN -DigitsValue(s, d, 0) ELSE DigitsValue(s, d, 0)

-----------------------------------------------------------------------------
(* refineSrtTiming                                                         *)

\* the fallback duration of a block whose successor does not start later
MinFallbackMs == 1000
\* the duration given to the last block
TrailingMs == 4000
\* the distance kept between a block's end and the next block's start
FlickerMs == 1

ARROW == <<" ", "-", "-", ">", " ">>

\* toMs: split on ':', ',' and '.'; fewer than 3 fields give 0; a missing or
\* non-numeric field counts as 0
toMs(ts) ==
    LET parts == SplitChars(ts, {":", ",", "."})
        h  == ParseIntOr0(parts[1])
        m  == ParseIntOr0(parts[2])
        sc == ParseIntOr0(parts[3])
        ms == IF Len(parts) >= 4 THEN ParseIntOr0(parts[4]) ELSE 0
    IN  IF Len(parts) < 3 THEN 0
        ELSE h * 3600000 + m * 60000 + sc * 1000 + ms

\* a formatter whose seconds field is not reduced to the seconds of the minute
toStrWholeSeconds(ms) ==
    LET h    == ms \div 3600000
        m    == JsRem(ms, 3600000) \div 60000
        sc   == ms \div 1000
        msec == JsRem(ms, 1000)
    IN  PadStart(NumToString(h), 2) \o <<":">> \o PadStart(NumToString(m), 2)
            \o <<":">> \o PadStart(NumToString(sc), 2) \o <<",">>
            \o PadStart(NumToString(msec), 3)

\* toStr: HH:MM:SS,mmm by Math.floor of the quotients and the % of JavaScript
toStr(ms) ==
    LET h    == ms \div 3600000
        m    == JsRem(ms, 3600000) \div 60000
        sc   == JsRem(ms, 60000) \div 1000
        msec == JsRem(ms, 1000)
    IN  PadStart(NumToString(h), 2) \o <<":">> \o PadStart(NumToString(m), 2)
            \o <<":">> \o PadStart(NumToString(sc), 2) \o <<",">>
            \o PadStart(NumToString(msec), 3)

\* a callback that asks for the separator only, not for a text on both sides
ParseBlockAnySides(block) ==
    LET lines    == SplitChars(block, {NL})
        timeLine == lines[2]
        sides    == SplitStr(timeLine, ARROW)
    IN  IF Len(lines) < 3 THEN [null |-> TRUE]
        ELSE IF Len(sides) < 2
             THEN [null |-> TRUE]
             ELSE [null    |-> FALSE,
                   index   |-> lines[1],
                   startMs |-> toMs(Trim(sides[1])),
                   endMs   |-> toMs(Trim(sides[2])),
                   text    |-> JoinLines(SubSeq(lines, 3, Len(lines)))]

\* the callback of blocks.map: a block record, or null for a piece with fewer than
\* 3 lines or without both sides of ' --> '
ParseBlock(block) ==
    LET lines    == SplitChars(block, {NL})
        timeLine == lines[2]
        sides    == SplitStr(timeLine, ARROW)
    IN  IF Len(lines) < 3 THEN [null |-> TRUE]
        ELSE IF Len(sides) < 2 \/ sides[1] = <<>> \/ sides[2] = <<>>
             THEN [null |-> TRUE]
             ELSE [null    |-> FALSE,
                   index   |-> lines[1],
                   startMs |-> toMs(Trim(sides[1])),
                   endMs   |-> toMs(Trim(sides[2])),
                   text    |-> JoinLines(SubSeq(lines, 3, Len(lines)))]

RECURSIVE MapParse(_)
MapParse(blocks) ==
    IF Len(blocks) = 0 THEN <<>>
    ELSE <<ParseBlock(blocks[1])>> \o MapParse(Tail(blocks))

NotNull(b) == ~b.null

\* srt.trim().split(/\n\s*\n/).map(...).filter(Boolean)
ParseBlocks(s) == SelectSeq(MapParse(SplitBlank(Trim(s))), NotNull)

\* an end that touches the next start
RefineEndTouching(newStart, isLast, nextStart) ==
    IF ~isLast
    THEN IF nextStart - FlickerMs <= newStart
         THEN newStart + MinFallbackMs
         ELSE nextStart
    ELSE newStart + TrailingMs

\* a last block that gets the fallback duration
RefineEndShortTail(newStart, isLast, nextStart) ==
    IF ~isLast
    THEN IF nextStart - FlickerMs <= newStart
         THEN newStart + MinFallbackMs
         ELSE nextStart - FlickerMs
    ELSE newStart + MinFallbackMs

\* an end that is always one millisecond before the next start
RefineEndNoFallback(newStart, isLast, nextStart) ==
    IF isLast THEN newStart + TrailingMs ELSE nextStart - FlickerMs

\* the new end of a block: 1 ms before the next start, start + 1000 when that is
\* not after the start, start + 4000 for the last block
RefineEnd(newStart, isLast, nextStart) ==
    IF ~isLast
    THEN IF nextStart - FlickerMs <= newStart
         THEN newStart + MinFallbackMs
         ELSE nextStart - FlickerMs
    ELSE newStart + TrailingMs

\* the values of one forEach iteration
RefineBlock(parsed, i) ==
    [index    |-> parsed[i].index,
     newStart |-> parsed[i].startMs,
     newEnd   |-> RefineEnd(parsed[i].startMs, i = Len(parsed),
                            IF i < Len(parsed) THEN parsed[i + 1].startMs ELSE 0),
     text     |-> parsed[i].text]

RefineBlocks(parsed) == [i \in 1..Len(parsed) |-> RefineBlock(parsed, i)]

\* output += `${index}\n${toStr(newStart)} --> ${toStr(newEnd)}\n${text}\n\n`
RECURSIVE Serialize(_)
Serialize(blocks) ==
    IF Len(blocks) = 0 THEN <<>>
    ELSE blocks[1].index \o <<NL>> \o toStr(blocks[1].newStart) \o ARROW
             \o toStr(blocks[1].newEnd) \o <<NL>> \o blocks[1].text \o <<NL, NL>>
             \o Serialize(Tail(blocks))

refineSrtTiming(s) == Trim(Serialize(RefineBlocks(ParseBlocks(s))))

-----------------------------------------------------------------------------
(* chunkTranscript                                                         *)

\* text.split("\n") with the separator forgotten: words, not lines
SplitWords(s) == SplitChars(s, {NL, SP})

\* s.split("\n")
SplitLines(s) == SplitChars(s, {NL})

\* the length test that forgets the window built so far
ExceedsLineOnly(current, line, max) == Len(line) > max

\* the test of the loop: (current + "\n" + line).length > maxLen
Exceeds(current, line, max) == Len(current \o <<NL>> \o line) > max

\* the push that replaces the list instead of extending it
PushReplacing(acc, current) == <<Trim(current)>>

\* chunks.push(current.trim()) inside the loop
Push(acc, current) == Append(acc, Trim(current))

\* the for loop over the lines, then the final push
RECURSIVE ChunkLoop(_, _, _, _, _)
ChunkLoop(lines, i, current, acc, max) ==
    IF i > Len(lines)
    THEN IF Len(Trim(current)) > 0 THEN Append(acc, Trim(current)) ELSE acc
    ELSE IF Exceeds(current, lines[i], max)
         THEN ChunkLoop(lines, i + 1, lines[i], Push(acc, current), max)
         ELSE ChunkLoop(lines, i + 1, current \o <<NL>> \o lines[i], acc, max)

chunkTranscript(t, max) == ChunkLoop(SplitLines(t), 1, <<>>, <<>>, max)

-----------------------------------------------------------------------------
(* mergeSrtChunks                                                          *)

\* an index line that keeps the label the block came with
IndexLineKept(lines, indexOffset) == lines[1]

\* the index line of an emitted block: `${indexOffset + 1}`
IndexLine(lines, indexOffset) == NumToString(indexOffset + 1)

\* a block put in front of the blocks merged so far
EmitInFront(mergedSoFar, indexLine, timeLine, body) ==
    indexLine \o <<NL>> \o timeLine \o <<NL>> \o body \o <<NL, NL>> \o mergedSoFar

\* merged += `${indexOffset + 1}\n${timeLine}\n${text}\n\n`
Emit(mergedSoFar, indexLine, timeLine, body) ==
    mergedSoFar \o indexLine \o <<NL>> \o timeLine \o <<NL>> \o body \o <<NL, NL>>

\* the inner loop over the blocks of one SRT string; a block of fewer than 2 lines
\* is skipped
RECURSIVE MergeBlocks(_, _, _)
MergeBlocks(blocks, i, st) ==
    IF i > Len(blocks) THEN st
    ELSE LET lines    == SplitChars(blocks[i], {NL})
             timeLine == lines[2]
             body     == JoinLines(SubSeq(lines, 3, Len(lines)))
         IN  IF Len(lines) < 2 THEN MergeBlocks(blocks, i + 1, st)
             ELSE MergeBlocks(blocks, i + 1,
                      [merged      |-> Emit(st.merged, IndexLine(lines, st.indexOffset),
                                            timeLine, body),
                       indexOffset |-> st.indexOffset + 1])

\* the outer loop over the SRT strings
RECURSIVE MergeSrts(_, _, _)
MergeSrts(list, k, st) ==
    IF k > Len(list) THEN st
    ELSE MergeSrts(list, k + 1, MergeBlocks(SplitBlank(Trim(list[k])), 1, st))

mergeSrtChunks(list) ==
    Trim(MergeSrts(list, 1, [merged |-> <<>>, indexOffset |-> 0]).merged)

-----------------------------------------------------------------------------
(* normalizeTimestamps                                                     *)

\* \d{n} at position i
DigitsAt(s, i, n) == i + n - 1 <= Len(s) /\ \A k \in i..(i + n - 1) : IsDigit(s[k])

\* (\d{2}):(\d{2}):(\d{2}) at position i
HmsAt(s, i) ==
    /\ i + 7 <= Len(s)
    /\ DigitsAt(s, i, 2) /\ s[i + 2] = ":"
    /\ DigitsAt(s, i + 3, 2) /\ s[i + 5] = ":"
    /\ DigitsAt(s, i + 6, 2)

\* (\d{2}):(\d{2}):(\d{2})[.,](\d{1,3}) at position i
FractionFormAt(s, i) ==
    /\ HmsAt(s, i)
    /\ i + 9 <= Len(s)
    /\ s[i + 8] \in {".", ","}
    /\ IsDigit(s[i + 9])

\* the length of the greedy (\d{1,3}) at position i
FractionLen(s, i) == CHOOSE n \in 1..3 : DigitsAt(s, i, n) /\ (n = 3 \/ ~DigitsAt(s, i, n + 1))

\* a first replace that copies the fraction as it is written
PadFractionsCopying(s, start) == s

\* the first replace, global: every fraction of 1 to 3 digits after '.' or ','
\* becomes ',' and the fraction padded at its start to 3 digits
RECURSIVE PadFractions(_, _)
PadFractions(s, start) ==
    LET at == MinOr({i \in start..Len(s) : FractionFormAt(s, i)}, 0)
    IN  IF at = 0 THEN SubSeq(s, start, Len(s))
        ELSE LET n == FractionLen(s, at + 9)
             IN  SubSeq(s, start, at + 7) \o <<",">>
                     \o PadStart(SubSeq(s, at + 9, at + 8 + n), 3)
                     \o PadFractions(s, at + 9 + n)

\* (\d{2}):(\d{2}):(\d{2})(\d{3}) at position i
BareFormAt(s, i) == HmsAt(s, i) /\ DigitsAt(s, i + 8, 3)

\* a second replace that leaves the bare form as it is
SplitBareCopying(s, start) == s

\* the second replace, global: HH:MM:SSmmm becomes HH:MM:SS,mmm
RECURSIVE SplitBare(_, _)
SplitBare(s, start) ==
    LET at == MinOr({i \in start..Len(s) : BareFormAt(s, i)}, 0)
    IN  IF at = 0 THEN SubSeq(s, start, Len(s))
        ELSE SubSeq(s, start, at + 7) \o <<",">> \o SubSeq(s, at + 8, at + 10)
                 \o SplitBare(s, at + 11)

normalizeTimestamps(s) == SplitBare(PadFractions(s, 1), 1)

-----------------------------------------------------------------------------
(* generateSrt: the text of the response, cleaned and refined              *)

\* the character U+2082, subscript two
SUB2 == "sub2"

\* the backquote character
BQ == "backquote"

\* three backquotes
FENCE == <<BQ, BQ, BQ>>

UpperCase == <<"A", "B", "C", "D", "E", "F", "G", "H", "I", "J", "K", "L", "M",
               "N", "O", "P", "Q", "R", "S", "T", "U", "V", "W", "X", "Y", "Z">>
LowerCase == <<"a", "b", "c", "d", "e", "f", "g", "h", "i", "j", "k", "l", "m",
               "n", "o", "p", "q", "r", "s", "t", "u", "v", "w", "x", "y", "z">>

\* the case folding of the i flag
Fold(c) ==
    IF \E k \in 1..26 : UpperCase[k] = c
    THEN LowerCase[CHOOSE k \in 1..26 : UpperCase[k] = c]
    ELSE c

\* \w
IsWord(c) ==
    \/ IsDigit(c)
    \/ c = "_"
    \/ \E k \in 1..26 : UpperCase[k] = c \/ LowerCase[k] = c

\* \b between positions i - 1 and i
BoundaryAt(s, i) ==
    (i > 1 /\ i - 1 <= Len(s) /\ IsWord(s[i - 1])) # (i <= Len(s) /\ IsWord(s[i]))

\* /\bword\b/i at position i; word is in lower case
WordAt(s, word, i) ==
    /\ i + Len(word) - 1 <= Len(s)
    /\ \A k \in 1..Len(word) : Fold(s[i + k - 1]) = word[k]
    /\ BoundaryAt(s, i)
    /\ BoundaryAt(s, i + Len(word))

\* s.replace(/\bword\b/gi, by)
RECURSIVE ReplaceWords(_, _, _, _)
ReplaceWords(s, word, by, start) ==
    LET at == MinOr({i \in start..Len(s) : WordAt(s, word, i)}, 0)
    IN  IF at = 0 THEN SubSeq(s, start, Len(s))
        ELSE SubSeq(s, start, at - 1) \o by \o ReplaceWords(s, word, by, at + Len(word))

\* s.replace(/^prefix/, '')
StripStart(s, prefix) ==
    IF StartsAt(s, prefix, 1) THEN SubSeq(s, Len(prefix) + 1, Len(s)) ELSE s

\* s.replace(/suffix$/, '')
StripEnd(s, suffix) ==
    IF Len(s) >= Len(suffix) /\ StartsAt(s, suffix, Len(s) - Len(suffix) + 1)
    THEN SubSeq(s, 1, Len(s) - Len(suffix))
    ELSE s

\* the four replaces that remove the code fences
StripFences(s) ==
    StripEnd(StripStart(StripStart(StripStart(s, FENCE \o <<"s", "r", "t", NL>>),
                                   FENCE \o <<NL>>),
                        FENCE),
             FENCE)

CARBON_DIOXIDE == <<"c", "a", "r", "b", "o", "n", " ", "d", "i", "o", "x", "i", "d", "e">>
NADH == <<"N", "A", "D", "H">>

\* the four replaces of the chemistry hotfix
FixChemistry(s) ==
    LET a == ReplaceWords(s, <<"c", "a", "r", "b", "o", "n", " ", "c", "o", SUB2>>,
                          CARBON_DIOXIDE, 1)
        b == ReplaceWords(a, <<"c", "o", SUB2, " ", "d", "i", "o", "x", "i", "d", "e">>,
                          CARBON_DIOXIDE, 1)
        c == ReplaceWords(b, <<"n", "a", "d", "h", SUB2>>, NADH, 1)
    IN  ReplaceWords(c, <<"n", "a", "d", "h", "2">>, NADH, 1)

\* the default of the maxLen parameter of chunkTranscript
DefaultMaxLen == 6000

\* what generateSrt returns for the text of a response
CleanAndRefine(responseText) == refineSrtTiming(Trim(FixChemistry(StripFences(responseText))))

-----------------------------------------------------------------------------
(* Inputs.                                                                 *)

RECURSIVE SeqsUpTo(_, _)
SeqsUpTo(S, n) ==
    IF n = 0 THEN {<<>>}
    ELSE LET R == SeqsUpTo(S, n - 1)
         IN  R \cup {Append(r, x) : r \in {q \in R : Len(q) = n - 1}, x \in S}

\* transcripts: a letter, a space and the newline
TextChars == {"a", SP, NL}
Texts == SeqsUpTo(TextChars, MaxTextLen)

\* timecodes as the generator may spell them
TC_0     == <<"0", "0", ":", "0", "0", ":", "0", "0", ",", "0", "0", "0">>
TC_4500  == <<"0", "0", ":", "0", "0", ":", "0", "4", ",", "5", "0", "0">>
TC_5000  == <<"0", "0", ":", "0", "0", ":", "0", "5", ",", "0", "0", "0">>
TC_9000  == <<"0", "0", ":", "0", "0", ":", "0", "9", ",", "0", "0", "0">>
\* one hour, one minute, one second and one millisecond
TC_Hour  == <<"0", "1", ":", "0", "1", ":", "0", "1", ",", "0", "0", "1">>
\* a negative seconds field
TC_Neg   == <<"0", "0", ":", "0", "0", ":", "-", "5", ",", "0", "0", "0">>
\* the dot form with a one-digit fraction
TC_Dot   == <<"0", "0", ":", "0", "0", ":", "0", "4", ".", "5">>
\* no timecode at all
TC_Junk  == <<"x">>

StartTimecodes == {TC_0, TC_4500, TC_5000, TC_9000, TC_Hour, TC_Neg}

\* one well-formed block: index, time range, text
BlockText(index, start, end, body) ==
    index \o <<NL>> \o start \o ARROW \o end \o <<NL>> \o body

\* three lines with the separator and nothing before it
PieceNoStart == BlockText(<<"7">>, <<>>, TC_9000, <<"a">>)
\* three lines with the separator and nothing after it
PieceNoEnd == BlockText(<<"7">>, TC_5000, <<>>, <<"a">>)
\* a block whose text ends with a space
PieceSpaced == BlockText(<<"7">>, TC_4500, TC_5000, <<"a", SP>>)

\* the pieces an SRT text is made of: well-formed blocks, a block with a
\* non-numeric index, dot and junk timecodes and two text lines, a piece of two
\* lines, a piece without the separator
Pieces ==
    {BlockText(<<"7">>, st, TC_0, <<"a">>) : st \in StartTimecodes}
        \cup {BlockText(<<"x">>, TC_Dot, TC_Junk, <<"a", NL, "b">>),
              <<"7">> \o <<NL>> \o TC_5000 \o ARROW \o TC_9000,
              <<"7">> \o <<NL>> \o TC_5000 \o <<NL>> \o <<"a">>}

\* the pieces joined by blank lines, an empty one and one holding a space in turn
RECURSIVE JoinPieces(_, _)
JoinPieces(ps, i) ==
    IF i > Len(ps) THEN <<>>
    ELSE IF i = Len(ps) THEN ps[i]
    ELSE ps[i] \o (IF i % 2 = 1 THEN <<NL, SP, NL>> ELSE <<NL, NL>>)
             \o JoinPieces(ps, i + 1)

SrtTexts == {JoinPieces(ps, 1) : ps \in SeqsUpTo(Pieces, MaxBlocks)}

\* the pieces of the texts the block parsing is checked on: kept blocks of one
\* and of two text lines and of a text that ends with a space, pieces of one line
\* and of two lines, a piece without the separator, pieces without a side of it
ParsePieces ==
    {BlockText(<<"7">>, TC_0, TC_4500, <<"a">>),
     BlockText(<<"x">>, TC_Dot, TC_Junk, <<"a", NL, "b">>),
     PieceSpaced,
     <<"a">>,
     <<"7">> \o <<NL>> \o TC_5000 \o ARROW \o TC_9000,
     <<"7">> \o <<NL>> \o TC_5000 \o <<NL>> \o <<"a">>,
     PieceNoStart,
     PieceNoEnd}

ParseTexts == {JoinPieces(ps, 1) : ps \in SeqsUpTo(ParsePieces, MaxPieces)}

\* the pieces of the per-window SRT strings: blocks labelled 1 (every window
\* restarts at 1), a block with a non-numeric label and two text lines, a piece
\* of an index and a time line only, a piece of one line
MergePieces ==
    {BlockText(<<"1">>, TC_0, TC_4500, <<"a">>),
     BlockText(<<"1">>, TC_5000, TC_9000, <<"b">>),
     BlockText(<<"x">>, TC_5000, TC_9000, <<"a", NL, "b">>),
     <<"2">> \o <<NL>> \o TC_5000 \o ARROW \o TC_9000,
     <<"a">>}

\* the boundary between two windows in a list of pieces
BREAK == "break"

\* the strings of a list of pieces and boundaries: one string per window, its
\* pieces separated by a blank line
RECURSIVE WindowsOf(_, _, _)
WindowsOf(tokens, i, cur) ==
    IF i > Len(tokens) THEN <<Join(cur, <<NL, NL>>)>>
    ELSE IF tokens[i] = <<BREAK>>
         THEN <<Join(cur, <<NL, NL>>)>> \o WindowsOf(tokens, i + 1, <<>>)
         ELSE WindowsOf(tokens, i + 1, Append(cur, tokens[i]))

SrtLists ==
    {<<>>} \cup {WindowsOf(ts, 1, <<>>) :
                    ts \in SeqsUpTo(MergePieces \cup {<<BREAK>>}, MaxMergeTokens)}

\* String.prototype.padEnd with "0"
RECURSIVE PadEnd(_, _)
PadEnd(s, width) == IF Len(s) >= width THEN s ELSE PadEnd(s \o <<"0">>, width)

TwoDigits(n) == PadStart(NumToString(n), 2)

\* hours, minutes, seconds and decimal fractions of a second of the timecodes
HourValues == (0..MaxHours) \cup {99}
MinuteValues == {0, 59}
SecondValues == {0, 4, 59}
Fractions == {<<"5">>, <<"5", "0">>, <<"5", "0", "0">>, <<"0", "0", "5">>,
              <<"0">>, <<"9", "9", "9">>}

\* one timecode in the three accepted spellings: HH:MM:SS,mmm, HH:MM:SS.f with the
\* fraction as written, HH:MM:SSmmm
Spellings(h, m, sc, f) ==
    LET hms == TwoDigits(h) \o <<":">> \o TwoDigits(m) \o <<":">> \o TwoDigits(sc)
    IN  [comma |-> hms \o <<",">> \o PadEnd(f, 3),
         dot   |-> hms \o <<".">> \o f,
         bare  |-> hms \o PadEnd(f, 3)]

Timecodes ==
    {Spellings(h, m, sc, f) :
        h \in HourValues, m \in MinuteValues, sc \in SecondValues, f \in Fractions}

\* a line of half the default window length: two of them do not fit one window
LongLine == [k \in 1..(DefaultMaxLen \div 2) |-> "a"]

\* the transcripts given to generateFullSrt: long and short lines
Transcripts ==
    {Join(ls, <<NL>>) : ls \in SeqsUpTo({LongLine, <<"a">>}, MaxLines)}

\* texts the generator answers with: a block at 0 s; a block at 9 s; a block whose
\* start is in the bare form; two blocks inside a code fence, the second start in
\* the dot form; no text
RespFirst == BlockText(<<"1">>, TC_0, TC_4500, <<"a">>)
RespLater == BlockText(<<"1">>, TC_9000, TC_9000, <<"b">>)
RespBare == BlockText(<<"1">>, Spellings(0, 0, 4, <<"5">>).bare, TC_9000, <<"a">>)
RespFenced ==
    FENCE \o <<"s", "r", "t", NL>>
        \o BlockText(<<"1">>, TC_0, TC_0, <<"N", "A", "D", "H", "2">>) \o <<NL, NL>>
        \o BlockText(<<"2">>, TC_Dot, TC_9000, <<"b">>) \o <<NL>> \o FENCE
Responses == {RespFirst, RespLater, RespBare, RespFenced, <<>>}

\* no call of toMs or toStr under way
IdleCodec == timecode = <<>> /\ millis = <<>> /\ formatted = <<>>

\* no call of generateFullSrt under way
IdleFull ==
    /\ fullTranscript = <<>> /\ apiKey = FALSE /\ position = 0
    /\ responses = <<>> /\ results = <<>> /\ calls = <<>>
    /\ failed = FALSE /\ returned = <<>>

-----------------------------------------------------------------------------
(* Specification of the calls of refineSrtTiming.                          *)

InitRefine ==
    /\ pc = "call"
    /\ srt \in SrtTexts
    /\ parsedBlocks = <<>> /\ refined = <<>> /\ output = <<>>
    /\ text = <<>> /\ maxLen = 0 /\ chunks = <<>>
    /\ srts = <<>> /\ merged = <<>>
    /\ IdleCodec /\ IdleFull
    /\ IdleLater

CallRefineSrtTiming ==
    /\ pc = "call"
    /\ parsedBlocks' = ParseBlocks(srt)
    /\ refined' = RefineBlocks(parsedBlocks')
    /\ output' = refineSrtTiming(srt)
    /\ pc' = "done"
    /\ UNCHANGED <<srt, text, maxLen, chunks, srts, merged, codecVars, fullVars, laterVars>>

NextRefine == CallRefineSrtTiming

SpecRefine == InitRefine /\ [][NextRefine]_vars

\* the calls of refineSrtTiming on texts with malformed pieces
InitParse ==
    /\ pc = "call"
    /\ srt \in ParseTexts
    /\ parsedBlocks = <<>> /\ refined = <<>> /\ output = <<>>
    /\ text = <<>> /\ maxLen = 0 /\ chunks = <<>>
    /\ srts = <<>> /\ merged = <<>>
    /\ IdleCodec /\ IdleFull
    /\ IdleLater

SpecParse == InitParse /\ [][NextRefine]_vars

-----------------------------------------------------------------------------
(* Specification of the calls of toMs and toStr.                           *)

InitCodec ==
    /\ pc = "call"
    /\ timecode \in Timecodes
    /\ millis = <<>> /\ formatted = <<>>
    /\ srt = <<>> /\ parsedBlocks = <<>> /\ refined = <<>> /\ output = <<>>
    /\ text = <<>> /\ maxLen = 0 /\ chunks = <<>>
    /\ srts = <<>> /\ merged = <<>>
    /\ IdleFull
    /\ IdleLater

\* toMs on each spelling
CallToMs ==
    /\ pc = "call"
    /\ millis' = [comma |-> toMs(timecode.comma),
                  dot   |-> toMs(timecode.dot),
                  bare  |-> toMs(timecode.bare)]
    /\ pc' = "parsed"
    /\ UNCHANGED <<refineVars, chunkVars, chunks, mergeVars, merged, timecode,
                   formatted, fullVars, laterVars>>

\* toStr on the value of the comma spelling
CallToStr ==
    /\ pc = "parsed"
    /\ formatted' = toStr(millis.comma)
    /\ pc' = "done"
    /\ UNCHANGED <<refineVars, chunkVars, chunks, mergeVars, merged, timecode,
                   millis, fullVars, laterVars>>

NextCodec == CallToMs \/ CallToStr

SpecCodec == InitCodec /\ [][NextCodec]_vars

-----------------------------------------------------------------------------
(* Specification of generateFullSrt.                                       *)

InitFull ==
    /\ pc = "start"
    /\ fullTranscript \in Transcripts
    /\ apiKey \in BOOLEAN
    /\ position = 0
    /\ responses = <<>> /\ results = <<>> /\ calls = <<>>
    /\ failed = FALSE /\ returned = <<>>
    /\ srt = <<>> /\ parsedBlocks = <<>> /\ refined = <<>> /\ output = <<>>
    /\ text = <<>> /\ maxLen = 0 /\ chunks = <<>>
    /\ srts = <<>> /\ merged = <<>>
    /\ IdleCodec
    /\ IdleLater

\* const chunks = chunkTranscript(fullTranscript); const results = []
SplitTranscript ==
    /\ pc = "start"
    /\ chunks' = chunkTranscript(fullTranscript, DefaultMaxLen)
    /\ results' = <<>>
    /\ position' = 1
    /\ pc' = "loop"
    /\ UNCHANGED <<refineVars, chunkVars, mergeVars, merged, codecVars,
                   fullTranscript, apiKey, responses, calls, failed, returned, laterVars>>

\* the next iteration calls generateSrt: without a key it throws, with one it
\* submits the window to the generator and waits
SubmitWindow ==
    /\ pc = "loop"
    /\ position <= Len(chunks)
    /\ IF ~apiKey
       THEN pc' = "rejected" /\ calls' = calls
       ELSE pc' = "awaiting" /\ calls' = Append(calls, position)
    /\ UNCHANGED <<refineVars, chunkVars, chunks, mergeVars, merged, codecVars,
                   fullTranscript, apiKey, position, responses, results, failed,
                   returned, laterVars>>

\* results.push(fixed) done at the front of the list
PushResultInFront(list, fixed) == <<fixed>> \o list

\* results.push(fixed)
PushResult(list, fixed) == Append(list, fixed)

\* the generator answers: generateSrt cleans and refines the text, the loop
\* normalises the timestamps of what generateSrt returned and keeps it
GeneratorReturns ==
    /\ pc = "awaiting"
    /\ \E r \in Responses :
          /\ responses' = Append(responses, r)
          /\ results' = PushResult(results, normalizeTimestamps(CleanAndRefine(r)))
    /\ position' = position + 1
    /\ pc' = "loop"
    /\ UNCHANGED <<refineVars, chunkVars, chunks, mergeVars, merged, codecVars,
                   fullTranscript, apiKey, calls, failed, returned, laterVars>>

\* a loop that goes on with the next window after a failed call
OnThrowSkipWindow(at) == [pc |-> "loop", position |-> at + 1]

\* an exception thrown inside the loop: no handler, the promise rejects
OnThrow(at) == [pc |-> "rejected", position |-> at]

\* the call of the generator throws
GeneratorThrows ==
    /\ pc = "awaiting"
    /\ failed' = TRUE
    /\ pc' = OnThrow(position).pc
    /\ position' = OnThrow(position).position
    /\ UNCHANGED <<refineVars, chunkVars, chunks, mergeVars, merged, codecVars,
                   fullTranscript, apiKey, responses, results, calls, returned, laterVars>>

\* after the loop: const merged = mergeSrtChunks(results); return merged
MergeAndReturn ==
    /\ pc = "loop"
    /\ position > Len(chunks)
    /\ merged' = mergeSrtChunks(results)
    /\ returned' = <<merged'>>
    /\ pc' = "returned"
    /\ UNCHANGED <<refineVars, chunkVars, chunks, mergeVars, codecVars,
                   fullTranscript, apiKey, position, responses, results, calls, failed, laterVars>>

NextFull ==
    \/ SplitTranscript
    \/ SubmitWindow
    \/ GeneratorReturns
    \/ GeneratorThrows
    \/ MergeAndReturn

SpecFull == InitFull /\ [][NextFull]_vars

-----------------------------------------------------------------------------
(* Specification of the calls of chunkTranscript.                          *)

InitChunk ==
    /\ pc = "call"
    /\ text \in Texts
    /\ maxLen \in 1..MaxMaxLen
    /\ chunks = <<>>
    /\ srt = <<>> /\ parsedBlocks = <<>> /\ refined = <<>> /\ output = <<>>
    /\ srts = <<>> /\ merged = <<>>
    /\ IdleCodec /\ IdleFull
    /\ IdleLater

CallChunkTranscript ==
    /\ pc = "call"
    /\ chunks' = chunkTranscript(text, maxLen)
    /\ pc' = "done"
    /\ UNCHANGED <<srt, parsedBlocks, refined, output, text, maxLen, srts, merged, codecVars, fullVars, laterVars>>

NextChunk == CallChunkTranscript

SpecChunk == InitChunk /\ [][NextChunk]_vars

-----------------------------------------------------------------------------
(* Specification of the calls of mergeSrtChunks.                           *)

InitMerge ==
    /\ pc = "call"
    /\ srts \in SrtLists
    /\ merged = <<>>
    /\ srt = <<>> /\ parsedBlocks = <<>> /\ refined = <<>> /\ output = <<>>
    /\ text = <<>> /\ maxLen = 0 /\ chunks = <<>>
    /\ IdleCodec /\ IdleFull
    /\ IdleLater

CallMergeSrtChunks ==
    /\ pc = "call"
    /\ merged' = mergeSrtChunks(srts)
    /\ pc' = "done"
    /\ UNCHANGED <<srt, parsedBlocks, refined, output, text, maxLen, chunks, srts, codecVars, fullVars, laterVars>>

NextMerge == CallMergeSrtChunks

SpecMerge == InitMerge /\ [][NextMerge]_vars

-----------------------------------------------------------------------------
(* Properties of refineSrtTiming.                                          *)

\* the blocks read from the argument, and the blocks read back from the result
Parsed == parsedBlocks
Written == ParseBlocks(output)

StartsOf(blocks) == [i \in 1..Len(blocks) |-> blocks[i].startMs]

\* C1 as stated: every adjacent pair of refined blocks has end + 1 = next start,
\* whatever the order of the start times
C1_GaplessAlways ==
    pc = "done" =>
        \A i \in 1..(Len(refined) - 1) :
            refined[i].newEnd + 1 = refined[i + 1].newStart

\* C1 as amended: an adjacent pair whose next start is more than 1 ms after the
\* start has end + 1 = next start, in the times computed and, for a start that is
\* not negative, in the timecodes written; any other pair has end = start + 1000
C1_GaplessWhenOrdered ==
    pc = "done" =>
        LET p == Parsed
            w == Written
        IN  /\ Len(refined) = Len(p)
            /\ \A i \in 1..(Len(refined) - 1) :
                   IF p[i + 1].startMs - 1 > p[i].startMs
                   THEN /\ refined[i].newEnd + 1 = refined[i + 1].newStart
                        /\ p[i].startMs >= 0 =>
                               /\ Len(w) = Len(p)
                               /\ w[i].endMs + 1 = w[i + 1].startMs
                   ELSE refined[i].newEnd = refined[i].newStart + 1000

\* a call on three blocks, the second starting well after the first and the third
\* together with the second
C1_Witness ==
    /\ pc = "done"
    /\ Len(refined) = 3
    /\ refined[1].newStart >= 0
    /\ refined[1].newEnd + 1 = refined[2].newStart
    /\ refined[2].newStart = refined[3].newStart

\* C2: the start timecode written for a block denotes the millisecond value of the
\* start timecode read for it
C2_StartAnchored ==
    pc = "done" =>
        LET p == Parsed
            w == Written
        IN  /\ Len(w) = Len(p)
            /\ \A i \in 1..Len(p) : w[i].startMs = p[i].startMs

\* the reference rule for the end of block i of the blocks p
ReferenceEnd(p, i) ==
    IF i = Len(p) THEN p[i].startMs + 4000
    ELSE IF p[i + 1].startMs - 1 > p[i].startMs
         THEN p[i + 1].startMs - 1
         ELSE p[i].startMs + 1000

\* C3: the end computed for every block is the one of the reference rule, and is
\* the one written when the start is not negative; no block gives the empty
\* string; starts 0, 4500, 9000 give ends 4499, 8999, 13000 and two blocks at 5000
\* give a first end of 6000
C3_EndRule ==
    pc = "done" =>
        LET p == Parsed
            w == Written
        IN  /\ Len(refined) = Len(p)
            /\ \A i \in 1..Len(p) :
                   /\ refined[i].newEnd = ReferenceEnd(p, i)
                   /\ p[i].startMs >= 0 =>
                          /\ Len(w) = Len(p)
                          /\ w[i].endMs = ReferenceEnd(p, i)
            /\ Len(p) = 0 => output = <<>>
            /\ StartsOf(p) = <<0, 4500, 9000>> =>
                   [i \in 1..3 |-> refined[i].newEnd] = <<4499, 8999, 13000>>
            /\ StartsOf(p) = <<5000, 5000>> => refined[1].newEnd = 6000

\* the call on blocks starting at 0, 4500 and 9000
C3_Witness ==
    /\ pc = "done"
    /\ StartsOf(Parsed) = <<0, 4500, 9000>>
    /\ StartsOf(Written) = <<0, 4500, 9000>>

\* C4: every parsed block is refined and gets an end after its start, in the
\* times computed and, for a start that is not negative, in the timecodes written
C4_PositiveDuration ==
    pc = "done" =>
        LET p == Parsed
            w == Written
        IN  /\ Len(refined) = Len(p)
            /\ \A i \in 1..Len(refined) :
                   /\ refined[i].newEnd > refined[i].newStart
                   /\ refined[i].newStart >= 0 =>
                          /\ Len(w) = Len(p)
                          /\ w[i].endMs > w[i].startMs

\* a call on three blocks, the second starting with the first and the third
\* before the second
C4_Witness ==
    /\ pc = "done"
    /\ Len(refined) = 3
    /\ refined[1].newStart = refined[2].newStart
    /\ refined[3].newStart < refined[2].newStart
    /\ refined[3].newStart >= 0

-----------------------------------------------------------------------------
(* Properties of chunkTranscript.                                          *)

\* the lines of the transcript, as the caller sees them
TranscriptLines == SplitChars(text, {NL})

IsBlank(line) == Trim(line) = <<>>

\* the non-blank lines of a list, each without its outer whitespace
RECURSIVE NonBlankTrimmed(_)
NonBlankTrimmed(lines) ==
    IF Len(lines) = 0 THEN <<>>
    ELSE IF IsBlank(lines[1]) THEN NonBlankTrimmed(Tail(lines))
    ELSE <<Trim(lines[1])>> \o NonBlankTrimmed(Tail(lines))

\* the lines of the windows joined by newline
WindowLines == SplitChars(JoinLines(chunks), {NL})

\* C5 as stated: joining the windows with newline reproduces the lines of the
\* transcript exactly
C5_ChunkCompletenessExact == pc = "done" => WindowLines = TranscriptLines

\* C5 as amended: joining the windows with newline reproduces the non-blank lines
\* of the transcript, in order and each up to its outer whitespace
C5_ChunkCompleteness ==
    pc = "done" => NonBlankTrimmed(WindowLines) = NonBlankTrimmed(TranscriptLines)

\* a call that made several windows out of several non-blank lines and lost a
\* blank line or outer whitespace on the way
C5_Witness ==
    /\ pc = "done"
    /\ Len(chunks) >= 2
    /\ Len(NonBlankTrimmed(TranscriptLines)) >= 2
    /\ WindowLines # TranscriptLines

\* C6: a transcript that is one line longer than maxLen gives exactly one window,
\* the whole line
C6_SingleLongLine ==
    (pc = "done" /\ Len(TranscriptLines) = 1 /\ Len(text) > maxLen)
        => chunks = <<text>>

\* C7: no window is empty or whitespace-only
C7_NoEmptyWindow ==
    pc = "done" => \A k \in 1..Len(chunks) : ~IsBlank(chunks[k])

\* C8: a window is at most maxLen characters long, unless it is one single line of
\* the transcript that is itself longer than maxLen
C8_WindowBound ==
    pc = "done" =>
        \A k \in 1..Len(chunks) :
            \/ Len(chunks[k]) <= maxLen
            \/ \E i \in 1..Len(TranscriptLines) :
                   /\ Len(TranscriptLines[i]) > maxLen
                   /\ chunks[k] = Trim(TranscriptLines[i])

\* a call that returned a window over the budget and a non-empty window within it
C8_Witness ==
    /\ pc = "done"
    /\ \E k \in 1..Len(chunks) : Len(chunks[k]) > maxLen
    /\ \E k \in 1..Len(chunks) : Len(chunks[k]) \in 1..maxLen

\* the windows from the k-th on are the lines from `from` on, cut into consecutive
\* runs of whole lines (outer whitespace trimmed), the lines left over being blank
RECURSIVE RunsFrom(_, _)
RunsFrom(k, from) ==
    IF k > Len(chunks)
    THEN \A i \in from..Len(TranscriptLines) : IsBlank(TranscriptLines[i])
    ELSE \E j \in (from - 1)..Len(TranscriptLines) :
             /\ chunks[k] = Trim(JoinLines(SubSeq(TranscriptLines, from, j)))
             /\ RunsFrom(k + 1, j + 1)

\* C9: no line is split: the windows are consecutive runs of whole lines of the
\* transcript, in the transcript's order
C9_NoLineSplit == pc = "done" => RunsFrom(1, 1)

\* a call that returned two windows, one of them holding two lines with a space
\* in one of them
C9_Witness ==
    /\ pc = "done"
    /\ Len(chunks) >= 2
    /\ \E k \in 1..Len(chunks) :
           /\ Len(SplitChars(chunks[k], {NL})) >= 2
           /\ \E i \in 1..Len(chunks[k]) : chunks[k][i] = SP

-----------------------------------------------------------------------------
(* Properties of mergeSrtChunks.                                           *)

\* the blocks of the strings of a list, in order: the blank-line-separated pieces
\* that have an index line and a time line
RECURSIVE InputBlocks(_)
InputBlocks(list) ==
    IF Len(list) = 0 THEN <<>>
    ELSE SelectSeq(SplitBlank(Trim(list[1])),
                   LAMBDA b : Len(SplitChars(b, {NL})) >= 2)
             \o InputBlocks(Tail(list))

\* the index lines of a merged track, in order
IndexLinesOf(track) ==
    IF track = <<>> THEN <<>>
    ELSE LET ps == SplitBlank(track)
         IN  [k \in 1..Len(ps) |-> SplitChars(ps[k], {NL})[1]]

\* the decimal numerals 1, 2, ..., m
Numerals(m) == [k \in 1..m |-> NatToString(k)]

\* C10: the index lines of the merged track are 1, 2, ..., M in order, M being
\* the number of blocks of the list, whatever labels they carried
C10_MergeReindex ==
    pc = "done" => IndexLinesOf(merged) = Numerals(Len(InputBlocks(srts)))

\* a merge of several windows holding three blocks or more, with a label used
\* twice and a label that is no number
C10_Witness ==
    /\ pc = "done"
    /\ Len(srts) >= 2
    /\ Len(InputBlocks(srts)) >= 3
    /\ \E i, j \in 1..Len(InputBlocks(srts)) :
           /\ i < j
           /\ SplitChars(InputBlocks(srts)[i], {NL})[1] = <<"1">>
           /\ SplitChars(InputBlocks(srts)[j], {NL})[1] = <<"1">>
    /\ \E i \in 1..Len(InputBlocks(srts)) :
           SplitChars(InputBlocks(srts)[i], {NL})[1] = <<"x">>

\* the pieces of the merged track, in order
MergedPieces == IF merged = <<>> THEN <<>> ELSE SplitBlank(merged)

\* the lines of a piece after its index line
AfterIndex(piece) ==
    LET lines == SplitChars(piece, {NL}) IN SubSeq(lines, 2, Len(lines))

-----------------------------------------------------------------------------
(* Properties of the block parsing of refineSrtTiming.                     *)

\* the blank-line-separated pieces of the input
InputPieces == SplitBlank(Trim(srt))

HasSeparator(line) == \E i \in 1..Len(line) : StartsAt(line, ARROW, i)

\* at least 3 lines and the separator in the second
HasLinesAndSeparator(piece) ==
    LET lines == SplitChars(piece, {NL})
    IN  Len(lines) >= 3 /\ HasSeparator(lines[2])

\* at least 3 lines and a second line with a text before its first separator and
\* a text right after it
HasLinesAndBothSides(piece) ==
    LET lines == SplitChars(piece, {NL})
    IN  /\ Len(lines) >= 3
        /\ HasSeparator(lines[2])
        /\ LET sides == SplitStr(lines[2], ARROW)
           IN  sides[1] # <<>> /\ sides[2] # <<>>

\* index line and text lines of a piece
IndexAndText(piece) ==
    LET lines == SplitChars(piece, {NL})
    IN  <<lines[1], JoinLines(SubSeq(lines, 3, Len(lines)))>>

\* index lines and texts of a list of pieces, in order
KeptPieces(kept) == [k \in 1..Len(kept) |-> IndexAndText(kept[k])]

IndexAndTextOf(blocks) == [k \in 1..Len(blocks) |-> <<blocks[k].index, blocks[k].text>>]

TrimStart(s) == SubSeq(s, FirstNonWs(s, 1), Len(s))
TrimEnd(s) == SubSeq(s, 1, LastNonWs(s, Len(s)))

\* the list with the white space at its two ends removed: before the first index
\* line and after the last text
TrimmedEnds(list) ==
    [k \in 1..Len(list) |->
        <<IF k = 1 THEN TrimStart(list[k][1]) ELSE list[k][1],
          IF k = Len(list) THEN TrimEnd(list[k][2]) ELSE list[k][2]>>]

\* C20 as stated: the pieces dropped are exactly those with fewer than 3 lines or
\* without ' --> ' in the second line; every other piece is parsed and written
\* with its index line and text lines verbatim, in order
C20_DropsExactlyAsStated ==
    pc = "done" =>
        LET kept == KeptPieces(SelectSeq(InputPieces, HasLinesAndSeparator))
        IN  /\ IndexAndTextOf(Parsed) = kept
            /\ IndexAndTextOf(Written) = kept

\* C20: the pieces dropped are exactly those with fewer than 3 lines, without
\* ' --> ' in the second line, or with nothing before or nothing right after the
\* first ' --> '; every other piece is parsed with its index line and text lines
\* verbatim and in order, and written so but for the white space at the two ends
\* of the output
C20_DropsMalformed ==
    pc = "done" =>
        LET kept == KeptPieces(SelectSeq(InputPieces, HasLinesAndBothSides))
        IN  /\ IndexAndTextOf(Parsed) = kept
            /\ IndexAndTextOf(Written) = TrimmedEnds(kept)

\* a text of three pieces: one without the separator, one with the separator and
\* no start, one kept
C20_Witness ==
    /\ pc = "done"
    /\ Len(InputPieces) = 3
    /\ \E k \in 1..3 : ~HasLinesAndSeparator(InputPieces[k])
    /\ \E k \in 1..3 : /\ HasLinesAndSeparator(InputPieces[k])
                       /\ ~HasLinesAndBothSides(InputPieces[k])
    /\ Len(Parsed) = 1
    /\ Len(Written) = 1

-----------------------------------------------------------------------------
(* Round trip of refineSrtTiming.                                          *)

\* every parsed start is an unsigned number of milliseconds
UnsignedStarts(blocks) == \A k \in 1..Len(blocks) : blocks[k].startMs >= 0

\* C16: for a block sequence with unsigned start times, refineSrtTiming applied to
\* its own output returns that output unchanged
C16_RoundTrip ==
    (pc = "done" /\ UnsignedStarts(Parsed)) => refineSrtTiming(output) = output

\* the output of three blocks, one of them past the first hour, whose time lines
\* the refinement has rewritten
C16_Witness ==
    /\ pc = "done"
    /\ Len(Parsed) = 3
    /\ UnsignedStarts(Parsed)
    /\ \E k \in 1..3 : Parsed[k].startMs >= 3600000
    /\ output # Trim(srt)

-----------------------------------------------------------------------------
(* Properties of toMs and toStr.                                           *)

\* C17: the dot, comma and bare spellings of one timecode parse to the same
\* number of milliseconds, and that number is formatted as the comma spelling
C17_SpellingsAgree ==
    pc = "done" =>
        /\ millis.dot = millis.comma
        /\ millis.bare = millis.comma
        /\ formatted = timecode.comma

\* C18: a timecode in the canonical form HH:MM:SS,mmm is parsed and formatted
\* back to itself
C18_CanonicalRoundTrip == pc = "done" => formatted = timecode.comma

\* 99:59:59,999 parsed and formatted
C18_Witness ==
    /\ pc = "done"
    /\ timecode.comma = <<"9", "9", ":", "5", "9", ":", "5", "9", ",", "9", "9", "9">>
    /\ millis.comma = 99 * 3600000 + 59 * 60000 + 59 * 1000 + 999
    /\ formatted = timecode.comma

-----------------------------------------------------------------------------
(* Properties of generateFullSrt.                                          *)

\* the blocks of the track generateFullSrt returned
Track == ParseBlocks(returned[1])

TimedText(blocks) ==
    [k \in 1..Len(blocks) |-> <<blocks[k].startMs, blocks[k].endMs, blocks[k].text>>]

\* every answer of the generator is an SRT text without code fences
PlainResponses ==
    \A k \in 1..Len(responses) :
        responses[k] # <<>> /\ StripFences(responses[k]) = responses[k]

\* the answers of all windows as one answer, processed in one piece
OnePiece == normalizeTimestamps(CleanAndRefine(Join(responses, <<NL, NL>>)))

\* C12: when the answers of the windows are the parts of one answer for the whole
\* transcript, the returned track has, block for block, the start, end and text
\* of that answer refined in one piece
C12_ChunkedEqualsWhole ==
    (pc = "returned" /\ PlainResponses) =>
        TimedText(Track) = TimedText(ParseBlocks(OnePiece))

StrictlyIncreasing(starts) ==
    \A k \in 1..(Len(starts) - 1) : starts[k] < starts[k + 1]

\* C13: in the returned track, with start times that increase, every block ends
\* 1 ms before the next one starts, at the window boundaries too
C13_GaplessAcrossWindows ==
    (pc = "returned" /\ StrictlyIncreasing(StartsOf(Track))) =>
        \A k \in 1..(Len(Track) - 1) : Track[k].endMs + 1 = Track[k + 1].startMs

\* C14: once a call of the generator has thrown, generateFullSrt is rejected:
\* nothing is merged and nothing is returned
C14_FailureRejectsAll ==
    failed => (pc = "rejected" /\ merged = <<>> /\ returned = <<>>)

\* the second window fails after the first one gave a result
C14_Witness ==
    /\ failed
    /\ pc = "rejected"
    /\ Len(results) >= 1
    /\ results[1] # <<>>

\* C15: windows are submitted once each and in window order; when the track is
\* returned every window has been answered, results[k] is what the k-th answer
\* gave, and the track is the merge of the results in that order
C15_WindowOrder ==
    /\ calls = [k \in 1..Len(calls) |-> k]
    /\ Len(calls) <= Len(chunks)
    /\ Len(results) = Len(responses)
    /\ \A k \in 1..Len(results) :
           results[k] = normalizeTimestamps(CleanAndRefine(responses[k]))
    /\ pc = "returned" =>
           /\ Len(calls) = Len(chunks)
           /\ Len(responses) = Len(chunks)
           /\ returned = <<mergeSrtChunks(results)>>
           /\ LET ins  == InputBlocks(results)
                  outs == IF returned[1] = <<>> THEN <<>> ELSE SplitBlank(returned[1])
              IN  /\ Len(outs) = Len(ins)
                  /\ \A k \in 1..Len(ins) : AfterIndex(outs[k]) = AfterIndex(ins[k])

\* a track returned for three windows whose answers differ
C15_Witness ==
    /\ pc = "returned"
    /\ Len(chunks) = 3
    /\ calls = <<1, 2, 3>>
    /\ responses[1] # responses[2]
    /\ results[1] # results[2]
    /\ Len(Track) >= 3

\* C19: the start times of each result are those of the answer's timecodes in
\* canonical form: the answer is normalised before its timecodes are parsed
C19_NormalisedBeforeRefined ==
    \A k \in 1..Len(results) :
        StartsOf(ParseBlocks(results[k]))
            = StartsOf(ParseBlocks(normalizeTimestamps(
                           Trim(FixChemistry(StripFences(responses[k]))))))

-----------------------------------------------------------------------------
(* Well-formedness of what mergeSrtChunks emits.                           *)

\* the pieces of all strings of a list, in order
RECURSIVE AllPieces(_)
AllPieces(list) ==
    IF Len(list) = 0 THEN <<>>
    ELSE SplitBlank(Trim(list[1])) \o AllPieces(Tail(list))

\* C21: every block of the merged track has an index line, a time-range line with
\* ' --> ' and a text line, and the blocks are as many as the pieces of the list
\* that the block parser keeps
C21_MergedWellFormed ==
    pc = "done" =>
        /\ \A k \in 1..Len(MergedPieces) : HasLinesAndSeparator(MergedPieces[k])
        /\ Len(MergedPieces) = Len(SelectSeq(AllPieces(srts), HasLinesAndSeparator))

-----------------------------------------------------------------------------
(* Specification of the calls of normalizeTimestamps.                      *)

earlierVars == <<refineVars, chunkVars, chunks, mergeVars, merged, codecVars, fullVars>>

\* no call of the functions specified above under way
IdleEarlier ==
    /\ srt = <<>> /\ parsedBlocks = <<>> /\ refined = <<>> /\ output = <<>>
    /\ text = <<>> /\ maxLen = 0 /\ chunks = <<>>
    /\ srts = <<>> /\ merged = <<>>
    /\ IdleCodec /\ IdleFull

\* the pieces a text given to normalizeTimestamps is made of: a timecode in the
\* dot form with a one-digit fraction, in the canonical form, in the bare form;
\* the arrow, a letter, a digit, a colon, a newline
NormTokens ==
    {TC_Dot, TC_4500, Spellings(1, 59, 4, <<"5">>).bare, ARROW,
     <<"x">>, <<"1">>, <<":">>, <<NL>>}

NormTexts == {Join(ts, <<>>) : ts \in SeqsUpTo(NormTokens, MaxNormTokens)}

InitNormalize ==
    /\ pc = "call"
    /\ normInput \in NormTexts
    /\ normOutput = <<>>
    /\ IdleEarlier /\ IdleGen /\ IdleApp /\ IdleResult /\ IdleProxy

CallNormalizeTimestamps ==
    /\ pc = "call"
    /\ normOutput' = normalizeTimestamps(normInput)
    /\ pc' = "done"
    /\ UNCHANGED <<earlierVars, normInput, genVars, appVars, resultVars, proxyVars>>

NextNormalize == CallNormalizeTimestamps

SpecNormalize == InitNormalize /\ [][NextNormalize]_vars

-----------------------------------------------------------------------------
(* Properties of normalizeTimestamps.                                      *)

\* HH:MM:SS,mmm at position i
CanonicalAt(s, i) ==
    HmsAt(s, i) /\ i + 11 <= Len(s) /\ s[i + 8] = "," /\ DigitsAt(s, i + 9, 3)

\* b from position j is a from position i with some substrings of the shape
\* HH:MM:SS[.,]f rewritten to HH:MM:SS,mmm of the same hours, minutes, seconds and
\* fraction value, every other character copied
RECURSIVE FractionsRewritten(_, _, _, _)
FractionsRewritten(a, i, b, j) ==
    IF i > Len(a) THEN j > Len(b)
    ELSE \/ /\ j <= Len(b)
            /\ a[i] = b[j]
            /\ FractionsRewritten(a, i + 1, b, j + 1)
         \/ /\ FractionFormAt(a, i)
            /\ CanonicalAt(b, j)
            /\ SubSeq(b, j, j + 7) = SubSeq(a, i, i + 7)
            /\ \E n \in 1..3 :
                  /\ DigitsAt(a, i + 9, n)
                  /\ DigitsValue(SubSeq(b, j + 9, j + 11), 1, 0)
                         = DigitsValue(SubSeq(a, i + 9, i + 8 + n), 1, 0)
                  /\ FractionsRewritten(a, i + 9 + n, b, j + 12)

\* b from position j is a from position i with some substrings of the shape
\* HH:MM:SSmmm rewritten to HH:MM:SS,mmm, every other character copied
RECURSIVE BareRewritten(_, _, _, _)
BareRewritten(a, i, b, j) ==
    IF i > Len(a) THEN j > Len(b)
    ELSE \/ /\ j <= Len(b)
            /\ a[i] = b[j]
            /\ BareRewritten(a, i + 1, b, j + 1)
         \/ /\ BareFormAt(a, i)
            /\ CanonicalAt(b, j)
            /\ SubSeq(b, j, j + 7) = SubSeq(a, i, i + 7)
            /\ SubSeq(b, j + 9, j + 11) = SubSeq(a, i + 8, i + 10)
            /\ BareRewritten(a, i + 11, b, j + 12)

\* no substring of s has the shape of a timecode and is not in the canonical form
AllCanonical(s) ==
    \A i \in 1..Len(s) :
        /\ FractionFormAt(s, i) => CanonicalAt(s, i)
        /\ ~BareFormAt(s, i)

\* the result is the argument with timecode-shaped substrings rewritten to
\* HH:MM:SS,mmm, first the fraction forms and then the bare forms, every other
\* character unchanged and in place
OnlyTimecodesRewritten ==
    \E mid \in {PadFractions(normInput, 1)} :
        /\ FractionsRewritten(normInput, 1, mid, 1)
        /\ BareRewritten(mid, 1, normOutput, 1)

\* C22 as stated: the result holds no timecode-shaped substring that is not
\* HH:MM:SS,mmm, and nothing but timecode-shaped substrings has been rewritten
C22_EveryShapeRewritten ==
    pc = "done" => (AllCanonical(normOutput) /\ OnlyTimecodesRewritten)

\* positions i..(i + n - 1) and the 12 positions of a canonical timecode at j meet
SharesCharacters(i, n, j) == i <= j + 11 /\ j <= i + n - 1

\* every timecode-shaped substring of s that is not in the canonical form shares
\* characters with one that is
AllCanonicalOrShared(s) ==
    \A i \in 1..Len(s) :
        ((FractionFormAt(s, i) /\ ~CanonicalAt(s, i)) \/ BareFormAt(s, i)) =>
            \E j \in 1..Len(s) : CanonicalAt(s, j) /\ SharesCharacters(i, 11, j)

\* C22: the only timecode-shaped substrings of the result that are not
\* HH:MM:SS,mmm share characters with one that is, and nothing but timecode-shaped
\* substrings has been rewritten
C22_NormalizeRewrites ==
    pc = "done" => (AllCanonicalOrShared(normOutput) /\ OnlyTimecodesRewritten)

\* a text with a dot form and a bare form and other characters, normalised
C22_Witness ==
    /\ pc = "done"
    /\ \E i \in 1..Len(normInput) : FractionFormAt(normInput, i) /\ ~CanonicalAt(normInput, i)
    /\ \E i \in 1..Len(normInput) : BareFormAt(normInput, i)
    /\ \E i \in 1..Len(normInput) : normInput[i] = "x"
    /\ normOutput # normInput

-----------------------------------------------------------------------------
(* Specification of one call of generateSrt.                               *)

\* what comes before the first block of a response: nothing, an opening fence
\* line with or without the srt tag, the fence alone, and the fence line after a
\* space or a newline
Openings ==
    {<<>>,
     FENCE \o <<"s", "r", "t", NL>>,
     FENCE \o <<NL>>,
     FENCE,
     <<SP>> \o FENCE \o <<"s", "r", "t", NL>>,
     <<NL>> \o FENCE \o <<"s", "r", "t", NL>>}

\* what comes after the last block: nothing, a closing fence line, the fence
\* alone, and the fence line followed by a newline or a space
Closings ==
    {<<>>,
     <<NL>> \o FENCE,
     FENCE,
     <<NL>> \o FENCE \o <<NL>>,
     <<NL>> \o FENCE \o <<SP>>}

GenBodies ==
    {Join(bs, <<NL, NL>>) : bs \in SeqsUpTo({RespFirst, RespLater}, MaxGenBlocks)}

GenResponses == {o \o b \o c : o \in Openings, b \in GenBodies, c \in Closings}

InitGenerate ==
    /\ pc = "call"
    /\ apiKey \in BOOLEAN
    /\ genResponse = <<>> /\ cleanText = <<>> /\ genReturned = <<>>
    /\ srt = <<>> /\ parsedBlocks = <<>> /\ refined = <<>> /\ output = <<>>
    /\ text = <<>> /\ maxLen = 0 /\ chunks = <<>>
    /\ srts = <<>> /\ merged = <<>>
    /\ IdleCodec
    /\ fullTranscript = <<>> /\ position = 0
    /\ responses = <<>> /\ results = <<>> /\ calls = <<>>
    /\ failed = FALSE /\ returned = <<>>
    /\ IdleNorm /\ IdleApp /\ IdleResult /\ IdleProxy

\* generateSrt up to its await: without a key it throws
CallGenerateSrt ==
    /\ pc = "call"
    /\ pc' = IF apiKey THEN "awaiting" ELSE "rejected"
    /\ UNCHANGED <<earlierVars, laterVars>>

\* generateContent resolves: the fences and the chemistry terms are replaced, the
\* text is trimmed and refined, the promise resolves with the refined text
GenerateContentReturns ==
    /\ pc = "awaiting"
    /\ \E r \in GenResponses :
          /\ genResponse' = r
          /\ cleanText' = Trim(FixChemistry(StripFences(r)))
          /\ genReturned' = <<CleanAndRefine(r)>>
    /\ pc' = "done"
    /\ UNCHANGED <<earlierVars, normVars, appVars, resultVars, proxyVars>>

\* generateContent rejects: so does generateSrt
GenerateContentThrows ==
    /\ pc = "awaiting"
    /\ pc' = "rejected"
    /\ UNCHANGED <<earlierVars, laterVars>>

NextGenerate == CallGenerateSrt \/ GenerateContentReturns \/ GenerateContentThrows

SpecGenerate == InitGenerate /\ [][NextGenerate]_vars

-----------------------------------------------------------------------------
(* Properties of generateSrt.                                              *)

\* the response holds an opening and a closing fence
Wrapped(r) == Cardinality({i \in 1..Len(r) : StartsAt(r, FENCE, i)}) >= 2

HasBackquote(s) == \E i \in 1..Len(s) : s[i] = BQ

\* C23: for a response wrapped in a code fence, no fence marker is in the text
\* given to refineSrtTiming nor in the text generateSrt returns
C23_FencesRemoved ==
    (pc = "done" /\ Wrapped(genResponse)) =>
        (~HasBackquote(cleanText) /\ ~HasBackquote(genReturned[1]))

-----------------------------------------------------------------------------
(* Specification of the App component: the wizard's state, its handlers and *)
(* the completions of the service calls they await.  The state updates of   *)
(* one synchronous stretch of a handler are applied together; the buttons   *)
(* the components disable while a call is pending are guards.               *)

DAILY_LIMIT == 1000

Today == "today"

\* the localStorage entry: none, one that cannot be read or parsed, the record
\* of an earlier day, or the record of today one below or at the limit
StoredEntries ==
    {<<>>,
     <<[readable |-> FALSE, date |-> "", count |-> 0]>>,
     <<[readable |-> TRUE, date |-> "yesterday", count |-> DAILY_LIMIT]>>,
     <<[readable |-> TRUE, date |-> Today, count |-> DAILY_LIMIT - 1]>>,
     <<[readable |-> TRUE, date |-> Today, count |-> DAILY_LIMIT]>>}

\* the count the two storage functions work from: the stored one when the entry
\* is dated today, else 0
usageCount(entry) ==
    IF entry # <<>> /\ entry[1].date = Today THEN entry[1].count ELSE 0

Unreadable(entry) == entry # <<>> /\ ~entry[1].readable

checkLocalDailyLimit(entry) ==
    IF Unreadable(entry) THEN TRUE ELSE usageCount(entry) < DAILY_LIMIT

incrementKeeping(entry, full) == entry

incrementLocalDailyLimit(entry, full) ==
    IF Unreadable(entry) \/ full
    THEN entry
    ELSE <<[readable |-> TRUE, date |-> Today, count |-> usageCount(entry) + 1]>>

TranscriptTexts == {"t1", "t2"}

Modes == {"NONE", "PUNCTUATION", "SPELLING", "BOTH"}

NeedsReview(mode) == mode \in {"SPELLING", "BOTH"}

CorrectionIds == <<"c1", "c2", "c3", "c4">>

\* what proposeCorrections resolves with: up to MaxCorrections corrections, all
\* selected
Proposals ==
    {[k \in 1..n |-> [id |-> CorrectionIds[k], correction |-> "fix", isSelected |-> TRUE]] :
        n \in 0..MaxCorrections}

EditedTexts == {"typed"}

SrtResults == {"srt1", "srt2"}

IsSelected(c) == c.isSelected

allCorrections(list) == list

activeCorrections(list) == SelectSeq(list, IsSelected)

noError(message, isTimestampError) == <<>>

ApiError(message, isTimestampError) ==
    <<[message |-> message, isTimestampError |-> isTimestampError]>>

LimitError == ApiError("Daily limit reached", FALSE)

finallyOnSuccess(threw) == threw

\* the busy flag after a finally block, whether or not the try block threw
finally(threw) == FALSE

InitApp ==
    /\ pc = "app"
    /\ stage = "INPUT"
    /\ transcript = ""
    /\ srtResult = ""
    /\ isValidating = FALSE
    /\ isProcessing = FALSE
    /\ error = <<>>
    /\ selectedMode = "NONE"
    /\ proposedCorrections = <<>>
    /\ memoCorrections = <<>>
    /\ pending = <<>>
    /\ stored \in StoredEntries
    /\ storageFull \in {FALSE, stored = <<>>}
    /\ IdleEarlier /\ IdleNorm /\ IdleGen /\ IdleResult /\ IdleProxy

appRest == <<pc, earlierVars, normVars, genVars, resultVars, proxyVars>>

\* handleOptionSelect is memoised on transcript: it keeps the
\* handleFinalProcessing, and with it the proposedCorrections, of the render in
\* which transcript last changed
Memoised(newTranscript, newCorrections) ==
    IF newTranscript # transcript THEN newCorrections ELSE memoCorrections

Awaiting(call) == pending # <<>> /\ pending[1].call = call

Settled == pending # <<>> /\ pending[1].outcome # "pending"

\* the promise of the awaited call resolves with a value or rejects
Settle(outcome, value) ==
    pending' = <<[pending[1] EXCEPT !.outcome = outcome, !.value = value]>>

\* StageInput's submit button: handleTranscriptSubmit up to its await
handleTranscriptSubmit(txt) ==
    /\ stage = "INPUT" /\ ~isValidating /\ pending = <<>>
    /\ IF ~checkLocalDailyLimit(stored)
       THEN /\ error' = LimitError
            /\ stage' = "ERROR"
            /\ UNCHANGED <<isValidating, pending>>
       ELSE /\ isValidating' = TRUE
            /\ error' = <<>>
            /\ pending' = <<[call |-> "validateTimestamps", text |-> txt,
                             mode |-> "", corrections |-> <<>>,
                             outcome |-> "pending", value |-> FALSE]>>
            /\ UNCHANGED stage
    /\ UNCHANGED <<transcript, srtResult, isProcessing, selectedMode,
                   proposedCorrections, memoCorrections, stored, storageFull,
                   appRest>>

\* validateTimestamps resolves with its answer or rejects
validateTimestampsSettles ==
    /\ Awaiting("validateTimestamps") /\ ~Settled
    /\ \/ \E hasTimestamps \in BOOLEAN : Settle("resolved", hasTimestamps)
       \/ Settle("rejected", FALSE)
    /\ UNCHANGED <<stage, transcript, srtResult, isValidating, isProcessing,
                   error, selectedMode, proposedCorrections, memoCorrections,
                   stored, storageFull, appRest>>

\* handleTranscriptSubmit after its await: try, catch and finally
handleTranscriptSubmitResumes ==
    /\ Awaiting("validateTimestamps") /\ Settled
    /\ IF pending[1].outcome = "resolved"
       THEN IF pending[1].value
            THEN /\ transcript' = pending[1].text
                 /\ stage' = "OPTIONS"
                 /\ UNCHANGED error
            ELSE /\ error' = ApiError("I don't see timestamps in this transcript", TRUE)
                 /\ stage' = "ERROR"
                 /\ UNCHANGED transcript
       ELSE /\ error' = ApiError("An error occurred while validating the transcript", FALSE)
            /\ stage' = "ERROR"
            /\ UNCHANGED transcript
    /\ isValidating' = finally(pending[1].outcome = "rejected")
    /\ memoCorrections' = Memoised(transcript', proposedCorrections)
    /\ pending' = <<>>
    /\ UNCHANGED <<srtResult, isProcessing, selectedMode, proposedCorrections,
                   stored, storageFull, appRest>>

\* handleFinalProcessing up to its await, in the render whose
\* proposedCorrections are shown
handleFinalProcessing(mode, shown) ==
    /\ \/ usageCount(stored) < MaxGenerations
       \/ usageCount(stored) >= DAILY_LIMIT - MaxGenerations
    /\ isProcessing' = TRUE
    /\ pending' = <<[call |-> "generateSrt", text |-> transcript,
                     mode |-> mode, corrections |-> activeCorrections(shown),
                     outcome |-> "pending", value |-> ""]>>

\* StageOptions' buttons: handleOptionSelect up to its await
handleOptionSelect(mode) ==
    /\ stage = "OPTIONS" /\ ~isProcessing /\ pending = <<>>
    /\ selectedMode' = mode
    /\ IF ~checkLocalDailyLimit(stored)
       THEN /\ error' = LimitError
            /\ stage' = "ERROR"
            /\ UNCHANGED <<isProcessing, pending>>
       ELSE /\ error' = <<>>
            /\ UNCHANGED stage
            /\ IF NeedsReview(mode)
               THEN /\ isProcessing' = TRUE
                    /\ pending' = <<[call |-> "proposeCorrections", text |-> transcript,
                                     mode |-> "", corrections |-> <<>>,
                                     outcome |-> "pending", value |-> <<>>]>>
               ELSE handleFinalProcessing(mode, memoCorrections)
    /\ UNCHANGED <<transcript, srtResult, isValidating, proposedCorrections,
                   memoCorrections, stored, storageFull, appRest>>

\* proposeCorrections resolves with its corrections or rejects
proposeCorrectionsSettles ==
    /\ Awaiting("proposeCorrections") /\ ~Settled
    /\ \/ \E corrections \in Proposals : Settle("resolved", corrections)
       \/ Settle("rejected", <<>>)
    /\ UNCHANGED <<stage, transcript, srtResult, isValidating, isProcessing,
                   error, selectedMode, proposedCorrections, memoCorrections,
                   stored, storageFull, appRest>>

\* handleOptionSelect after its await: try, catch and finally
handleOptionSelectResumes ==
    /\ Awaiting("proposeCorrections") /\ Settled
    /\ IF pending[1].outcome = "resolved"
       THEN /\ proposedCorrections' = pending[1].value
            /\ stage' = "SPELLING_REVIEW"
            /\ UNCHANGED error
       ELSE /\ error' = ApiError("Failed to analyze spelling", FALSE)
            /\ stage' = "ERROR"
            /\ UNCHANGED proposedCorrections
    /\ isProcessing' = finally(pending[1].outcome = "rejected")
    /\ pending' = <<>>
    /\ UNCHANGED <<transcript, srtResult, isValidating, selectedMode,
                   memoCorrections, stored, storageFull, appRest>>

\* the review's checkboxes, which stay enabled while a call is pending
toggleCorrection(id) ==
    /\ stage = "SPELLING_REVIEW" /\ ~Settled
    /\ \E k \in 1..Len(proposedCorrections) : proposedCorrections[k].id = id
    /\ proposedCorrections' =
          [k \in 1..Len(proposedCorrections) |->
              IF proposedCorrections[k].id = id
              THEN [proposedCorrections[k] EXCEPT !.isSelected = ~@]
              ELSE proposedCorrections[k]]
    /\ UNCHANGED <<stage, transcript, srtResult, isValidating, isProcessing,
                   error, selectedMode, memoCorrections, pending, stored,
                   storageFull, appRest>>

\* the review's text fields
handleCorrectionEdit(id, newText) ==
    /\ stage = "SPELLING_REVIEW" /\ ~Settled
    /\ \E k \in 1..Len(proposedCorrections) : proposedCorrections[k].id = id
    /\ proposedCorrections' =
          [k \in 1..Len(proposedCorrections) |->
              IF proposedCorrections[k].id = id
              THEN [proposedCorrections[k] EXCEPT !.correction = newText,
                                                  !.isSelected = TRUE]
              ELSE proposedCorrections[k]]
    /\ UNCHANGED <<stage, transcript, srtResult, isValidating, isProcessing,
                   error, selectedMode, memoCorrections, pending, stored,
                   storageFull, appRest>>

\* the review's confirm button: handleFinalProcessing(selectedMode) of the
\* current render
onConfirm ==
    /\ stage = "SPELLING_REVIEW" /\ ~isProcessing /\ pending = <<>>
    /\ handleFinalProcessing(selectedMode, proposedCorrections)
    /\ UNCHANGED <<stage, transcript, srtResult, isValidating, error,
                   selectedMode, proposedCorrections, memoCorrections, stored,
                   storageFull, appRest>>

\* the review's cancel button
handleBackToOptions ==
    /\ stage = "SPELLING_REVIEW" /\ ~isProcessing /\ pending = <<>>
    /\ stage' = "OPTIONS"
    /\ UNCHANGED <<transcript, srtResult, isValidating, isProcessing, error,
                   selectedMode, proposedCorrections, memoCorrections, pending,
                   stored, storageFull, appRest>>

\* generateSrt resolves with the subtitle text or rejects
generateSrtSettles ==
    /\ Awaiting("generateSrt") /\ ~Settled
    /\ \/ \E result \in SrtResults : Settle("resolved", result)
       \/ Settle("rejected", "")
    /\ UNCHANGED <<stage, transcript, srtResult, isValidating, isProcessing,
                   error, selectedMode, proposedCorrections, memoCorrections,
                   stored, storageFull, appRest>>

\* what handleFinalProcessing's try block sets once generateSrt has resolved
shownUnset(result) == [srtResult |-> srtResult, stage |-> "RESULT"]

shown(result) == [srtResult |-> result, stage |-> "RESULT"]

\* handleFinalProcessing after its await: try, catch and finally
handleFinalProcessingResumes ==
    /\ Awaiting("generateSrt") /\ Settled
    /\ IF pending[1].outcome = "resolved"
       THEN /\ stored' = incrementLocalDailyLimit(stored, storageFull)
            /\ srtResult' = shown(pending[1].value).srtResult
            /\ stage' = shown(pending[1].value).stage
            /\ UNCHANGED error
       ELSE /\ error' = ApiError("Failed to convert the transcript", FALSE)
            /\ stage' = "ERROR"
            /\ UNCHANGED <<stored, srtResult>>
    /\ isProcessing' = finally(pending[1].outcome = "rejected")
    /\ pending' = <<>>
    /\ UNCHANGED <<transcript, isValidating, selectedMode, proposedCorrections,
                   memoCorrections, storageFull, appRest>>

\* StageResult's restart button, and the error screen's retry after a
\* timestamp error
handleRestart ==
    /\ \/ stage = "RESULT"
       \/ stage = "ERROR" /\ error # <<>> /\ error[1].isTimestampError
    /\ stage' = "INPUT"
    /\ transcript' = ""
    /\ srtResult' = ""
    /\ proposedCorrections' = <<>>
    /\ selectedMode' = "NONE"
    /\ error' = <<>>
    /\ memoCorrections' = Memoised(transcript', proposedCorrections')
    /\ UNCHANGED <<isValidating, isProcessing, pending, stored, storageFull,
                   appRest>>

\* StageOptions' back button, and the error screen's retry after any other error
handleBackToInput ==
    /\ \/ stage = "OPTIONS" /\ ~isProcessing
       \/ stage = "ERROR" /\ error # <<>> /\ ~error[1].isTimestampError
    /\ stage' = "INPUT"
    /\ error' = <<>>
    /\ UNCHANGED <<transcript, srtResult, isValidating, isProcessing,
                   selectedMode, proposedCorrections, memoCorrections, pending,
                   stored, storageFull, appRest>>

\* the steps that follow a service call without the user
Completes ==
    \/ validateTimestampsSettles
    \/ handleTranscriptSubmitResumes
    \/ proposeCorrectionsSettles
    \/ handleOptionSelectResumes
    \/ generateSrtSettles
    \/ handleFinalProcessingResumes

NextApp ==
    \/ \E txt \in TranscriptTexts : handleTranscriptSubmit(txt)
    \/ \E mode \in Modes : handleOptionSelect(mode)
    \/ \E k \in 1..MaxCorrections : toggleCorrection(CorrectionIds[k])
    \/ \E k \in 1..MaxCorrections, newText \in EditedTexts :
          handleCorrectionEdit(CorrectionIds[k], newText)
    \/ onConfirm
    \/ handleBackToOptions
    \/ handleRestart
    \/ handleBackToInput
    \/ Completes

SpecApp == InitApp /\ [][NextApp]_vars

\* every pending service call settles and its handler resumes
SpecAppFair == SpecApp /\ WF_vars(Completes)

-----------------------------------------------------------------------------
(* Properties of the App component.                                        *)

\* a step of handleTranscriptSubmit up to its await: the only handler of the
\* input stage
SubmitStep == stage = "INPUT" /\ pending = <<>>

\* a step of handleOptionSelect up to its await: the one handler of the options
\* stage that does not go back to the input
SelectStep == stage = "OPTIONS" /\ pending = <<>> /\ stage' # "INPUT"

\* a step of handleFinalProcessing after generateSrt has settled
GeneratedStep(outcome) ==
    Awaiting("generateSrt") /\ pending[1].outcome = outcome /\ pending' = <<>>

RefusedAtTheLimit ==
    (usageCount(stored) >= DAILY_LIMIT /\ (SubmitStep \/ SelectStep)) =>
        (stage' = "ERROR" /\ error' # <<>> /\ pending' = <<>>)

C25_CompleteOrFailed ==
    [][/\ (stage' = "RESULT" /\ stage # "RESULT") =>
              /\ GeneratedStep("resolved")
              /\ srtResult' = pending[1].value
              /\ srtResult' \in SrtResults
       /\ GeneratedStep("rejected") =>
              /\ stage' = "ERROR"
              /\ error' # <<>> /\ error'[1].message # ""
              /\ srtResult' = srtResult]_vars

C25_Witness == stage = "RESULT" /\ srtResult = "srt2" /\ pending = <<>>

\* C26: in the ERROR stage error is set; every step into ERROR sets a message,
\* and error is cleared only by a step that leaves ERROR
C26_ErrorScreenNeverBlank ==
    [][/\ stage' = "ERROR" => (error' # <<>> /\ error'[1].message # "")
       /\ (error # <<>> /\ error' = <<>>) => (stage = "ERROR" /\ stage' # "ERROR")]_vars

C26_Witness ==
    stage = "ERROR" /\ error # <<>> /\ error[1].isTimestampError /\ transcript # ""

\* C27: generateSrt is called for SPELLING and BOTH only by the confirmation of
\* the spelling review, with the corrections selected then; for NONE and
\* PUNCTUATION it is called from the options stage
C27_ReviewBeforeSpelling ==
    [][(pending = <<>> /\ pending' # <<>> /\ pending'[1].call = "generateSrt") =>
          IF pending'[1].mode \in {"SPELLING", "BOTH"}
          THEN /\ stage = "SPELLING_REVIEW"
               /\ pending'[1].mode = selectedMode
               /\ pending'[1].corrections = SelectSeq(proposedCorrections, IsSelected)
          ELSE /\ stage = "OPTIONS"
               /\ pending'[1].mode \in {"NONE", "PUNCTUATION"}]_vars

C27_Witness ==
    /\ Awaiting("generateSrt")
    /\ pending[1].mode = "BOTH"
    /\ Len(pending[1].corrections) < Len(proposedCorrections)

\* C28: once every pending call settles, a busy flag that is set is cleared
\* again
C28_BusyFlagsReset ==
    /\ isValidating ~> ~isValidating
    /\ isProcessing ~> ~isProcessing

C28_Witness ==
    isProcessing /\ stage = "SPELLING_REVIEW" /\ Settled /\ pending[1].outcome = "rejected"

-----------------------------------------------------------------------------
(* Specification of the StageResult component.                             *)

SUPPORTED_LANGUAGES ==
    <<"Spanish", "Chinese (Simplified)", "Chinese (Traditional)",
      "Tagalog (Filipino)", "Korean", "Armenian", "Vietnamese",
      "Farsi (Persian)", "Japanese">>

Languages == {SUPPORTED_LANGUAGES[k] : k \in 1..MaxLanguages}

\* what translateSrt resolves with
Translations == {"translation1", "translation2"}

translateDisplayed(original, displayed) == displayed

\* the text handleTranslate gives to translateSrt
translateSource(original, displayed) == original

InitResult ==
    /\ pc = "mounted"
    /\ originalSrt \in SrtResults
    /\ displayedSrt = originalSrt
    /\ currentLanguage = "English"
    /\ selectedLanguage = "Spanish"
    /\ isTranslating = FALSE
    /\ translationError = <<>>
    /\ translatedSrt = <<>>
    /\ translatedLanguage = <<>>
    /\ translating = <<>>
    /\ downloaded = <<>>
    /\ IdleEarlier /\ IdleNorm /\ IdleGen /\ IdleApp /\ IdleProxy

resultRest == <<earlierVars, normVars, genVars, appVars, proxyVars>>

\* the user may act: the component is mounted and no continuation is due
Interactive ==
    /\ pc = "mounted"
    /\ IF translating = <<>> THEN TRUE ELSE translating[1].outcome = "pending"

\* the language select, disabled while translating
setSelectedLanguage(language) ==
    /\ Interactive /\ ~isTranslating
    /\ selectedLanguage' = language
    /\ UNCHANGED <<pc, originalSrt, displayedSrt, currentLanguage, isTranslating,
                   translationError, translatedSrt, translatedLanguage,
                   translating, downloaded, resultRest>>

\* the Translate button, disabled while translating: handleTranslate up to its
\* await
handleTranslate ==
    /\ Interactive /\ ~isTranslating
    /\ IF selectedLanguage = "English"
       THEN /\ displayedSrt' = originalSrt
            /\ currentLanguage' = "English"
            /\ UNCHANGED <<isTranslating, translationError, translating>>
       ELSE /\ isTranslating' = TRUE
            /\ translationError' = <<>>
            /\ translating' = <<[srt |-> translateSource(originalSrt, displayedSrt),
                                 language |-> selectedLanguage,
                                 outcome |-> "pending",
                                 value |-> ""]>>
            /\ UNCHANGED <<displayedSrt, currentLanguage>>
    /\ UNCHANGED <<pc, originalSrt, selectedLanguage, translatedSrt,
                   translatedLanguage, downloaded, resultRest>>

\* translateSrt resolves with a translation or rejects
translateSrtSettles ==
    /\ pc = "mounted"
    /\ translating # <<>> /\ translating[1].outcome = "pending"
    /\ \/ \E result \in Translations :
             translating' = <<[translating[1] EXCEPT !.outcome = "resolved",
                                                     !.value = result]>>
       \/ translating' = <<[translating[1] EXCEPT !.outcome = "rejected"]>>
    /\ UNCHANGED <<pc, originalSrt, displayedSrt, currentLanguage,
                   selectedLanguage, isTranslating, translationError,
                   translatedSrt, translatedLanguage, downloaded, resultRest>>

\* handleTranslate after its await: try, catch and finally
handleTranslateResumes ==
    /\ pc = "mounted"
    /\ translating # <<>> /\ translating[1].outcome # "pending"
    /\ IF translating[1].outcome = "resolved"
       THEN /\ displayedSrt' = translating[1].value
            /\ currentLanguage' = translating[1].language
            /\ translatedSrt' = <<translating[1].value>>
            /\ translatedLanguage' = <<translating[1].language>>
            /\ UNCHANGED translationError
       ELSE /\ translationError' = <<"Failed to translate. Please try again.">>
            /\ UNCHANGED <<displayedSrt, currentLanguage, translatedSrt,
                           translatedLanguage>>
    /\ isTranslating' = FALSE
    /\ translating' = <<>>
    /\ UNCHANGED <<pc, originalSrt, selectedLanguage, downloaded, resultRest>>

\* the revert link, shown while another language is displayed
RevertToEnglish ==
    /\ Interactive
    /\ currentLanguage # "English"
    /\ displayedSrt' = originalSrt
    /\ currentLanguage' = "English"
    /\ UNCHANGED <<pc, originalSrt, selectedLanguage, isTranslating,
                   translationError, translatedSrt, translatedLanguage,
                   translating, downloaded, resultRest>>

\* downloadFile's arguments
downloadFile(content, lang) ==
    /\ downloaded' = <<[content |-> content, lang |-> lang]>>
    /\ UNCHANGED <<pc, originalSrt, displayedSrt, currentLanguage,
                   selectedLanguage, isTranslating, translationError,
                   translatedSrt, translatedLanguage, translating, resultRest>>

\* the English download button
DownloadEnglish ==
    /\ Interactive
    /\ downloadFile(originalSrt, "English")

\* the second download button, shown once a translation is stored
DownloadTranslated ==
    /\ Interactive
    /\ translatedSrt # <<>> /\ translatedSrt[1] # "" /\ translatedLanguage # <<>>
    /\ downloadFile(translatedSrt[1], translatedLanguage[1])

\* the Start Over button: App leaves the RESULT stage and the component is gone
onRestart ==
    /\ Interactive
    /\ pc' = "unmounted"
    /\ UNCHANGED <<resultVars, resultRest>>

NextResult ==
    \/ \E language \in Languages : setSelectedLanguage(language)
    \/ handleTranslate
    \/ translateSrtSettles
    \/ handleTranslateResumes
    \/ RevertToEnglish
    \/ DownloadEnglish
    \/ DownloadTranslated
    \/ onRestart

SpecResult == InitResult /\ [][NextResult]_vars

-----------------------------------------------------------------------------
(* Properties of the StageResult component.                                *)

\* C29: originalSrt never changes; translateSrt is given originalSrt; while the
\* language is English the original is displayed and the English download is the
\* original; when translateSrt rejects, the displayed text, the language and the
\* stored translation stay and translationError is set
C29_OriginalNeverLost ==
    [][/\ originalSrt' = originalSrt
       /\ (translating = <<>> /\ translating' # <<>>) => translating'[1].srt = originalSrt
       /\ currentLanguage' = "English" => displayedSrt' = originalSrt
       /\ (downloaded' # downloaded /\ downloaded'[1].lang = "English") =>
              downloaded'[1].content = originalSrt
       /\ (translating # <<>> /\ translating[1].outcome = "rejected" /\ translating' = <<>>) =>
              /\ displayedSrt' = displayedSrt
              /\ currentLanguage' = currentLanguage
              /\ translatedSrt' = translatedSrt
              /\ translatedLanguage' = translatedLanguage
              /\ translationError' # <<>>]_vars

\* a second translation, started while the first one is displayed, has failed
C29_Witness ==
    /\ translating # <<>> /\ translating[1].outcome = "rejected"
    /\ displayedSrt # originalSrt
    /\ translatedSrt # <<>>

-----------------------------------------------------------------------------
(* Specification of the proxy handler of api/generate.                     *)

MAX_CHARS == 20000

\* req.body: undefined, or an object whose contents is missing, an empty
\* string, a string of some length, or an array, with or without a model
Bodies ==
    {[present |-> FALSE, contents |-> "undefined", length |-> 0, model |-> ""]}
    \cup {[present |-> TRUE, contents |-> c, length |-> 0, model |-> m] :
             c \in {"undefined", "array"}, m \in {"", "gemini-2.5-pro"}}
    \cup {[present |-> TRUE, contents |-> "string", length |-> n, model |-> m] :
             n \in {0, 1, MAX_CHARS, MAX_CHARS + 1}, m \in {"", "gemini-2.5-pro"}}

Requests ==
    [method : {"GET", "POST"}, GEMINI_API_KEY : BOOLEAN, body : Bodies]

\* what the upstream API answers: a status and a body that is JSON or not
GoogleResponses ==
    [status : {200}, ok : {TRUE}, json : BOOLEAN]
    \cup [status : {400, 429, 503}, ok : {FALSE}, json : BOOLEAN]

\* !contents
Falsy(body) ==
    body.contents = "undefined" \/ (body.contents = "string" /\ body.length = 0)

Reply(status, body) == <<[status |-> status, body |-> body]>>

InitProxy ==
    /\ pc = "received"
    /\ request \in {<<r>> : r \in Requests}
    /\ upstream = <<>>
    /\ reply = <<>>
    /\ IdleEarlier /\ IdleNorm /\ IdleGen /\ IdleApp /\ IdleResult

proxyRest == <<earlierVars, normVars, genVars, appVars, resultVars>>

\* handler up to its fetch
handler ==
    /\ pc = "received"
    /\ LET req == request[1] IN
       IF req.method # "POST"
       THEN reply' = Reply(405, "Method not allowed") /\ pc' = "replied" /\ UNCHANGED upstream
       ELSE IF ~req.GEMINI_API_KEY
       THEN reply' = Reply(500, "Server misconfigured") /\ pc' = "replied" /\ UNCHANGED upstream
       ELSE IF ~req.body.present
       THEN \* destructuring undefined throws: the catch block answers
            reply' = Reply(500, "Internal server error") /\ pc' = "replied" /\ UNCHANGED upstream
       ELSE IF Falsy(req.body)
       THEN reply' = Reply(400, "Missing contents payload") /\ pc' = "replied" /\ UNCHANGED upstream
       ELSE IF req.body.contents = "string" /\ req.body.length > MAX_CHARS
       THEN reply' = Reply(413, "Transcript too long") /\ pc' = "replied" /\ UNCHANGED upstream
       ELSE /\ upstream' = <<[model |-> IF req.body.model # "" THEN req.body.model
                                        ELSE "gemini-2.5-flash",
                              response |-> <<>>]>>
            /\ pc' = "fetching"
            /\ UNCHANGED reply
    /\ UNCHANGED <<request, proxyRest>>

\* fetch resolves: the body is parsed, then the status is looked at
fetchResolves(googleResponse) ==
    /\ pc = "fetching"
    /\ upstream' = <<[upstream[1] EXCEPT !.response = <<googleResponse>>]>>
    /\ reply' = IF ~googleResponse.json
                THEN Reply(500, "Internal server error")
                ELSE IF ~googleResponse.ok
                THEN Reply(googleResponse.status, "data")
                ELSE Reply(200, "data")
    /\ pc' = "replied"
    /\ UNCHANGED <<request, proxyRest>>

\* fetch rejects: the catch block answers
fetchRejects ==
    /\ pc = "fetching"
    /\ reply' = Reply(500, "Internal server error")
    /\ pc' = "replied"
    /\ UNCHANGED <<request, upstream, proxyRest>>

NextProxy ==
    \/ handler
    \/ \E googleResponse \in GoogleResponses : fetchResolves(googleResponse)
    \/ fetchRejects

SpecProxy == InitProxy /\ [][NextProxy]_vars

-----------------------------------------------------------------------------
(* Properties of the proxy handler.                                        *)

\* the status the handler is to answer without an upstream call, 0 when it is
\* to call upstream
Refusal(req) ==
    IF req.method # "POST" THEN 405
    ELSE IF ~req.GEMINI_API_KEY THEN 500
    ELSE IF Falsy(req.body) THEN 400
    ELSE IF req.body.contents = "string" /\ req.body.length > MAX_CHARS THEN 413
    ELSE 0

\* C30: the handler calls upstream only for a POST with the key configured, a
\* contents payload and no string above MAX_CHARS; otherwise it answers 405, 500,
\* 400 or 413, in that order; a non-OK upstream status is passed through
C30_ProxyAnswers ==
    pc = "replied" =>
        /\ upstream # <<>> <=> Refusal(request[1]) = 0
        /\ Refusal(request[1]) # 0 => reply[1].status = Refusal(request[1])
        /\ (upstream # <<>> /\ upstream[1].response # <<>>
               /\ ~upstream[1].response[1].ok) =>
              reply[1].status = upstream[1].response[1].status

====
